---------------------------- MODULE Spec2Model ----------------------------
(***************************************************************************)
(* A model of WorldPopPy: the manifest store and query resolver            *)
(* (worldpoppy/manifest.py) and the download engine                        *)
(* (worldpoppy/download.py).                                               *)
(*                                                                         *)
(* Strings are sequences of one-character strings, so that the regular     *)
(* expression scan, str.replace, str.upper and str.split of the source are *)
(* computed character by character.                                        *)
(***************************************************************************)
EXTENDS Integers, Sequences, FiniteSets, TLC

VARIABLES
    catalog,    \* the raw WorldPop catalog (wpgpDatasets.csv) on the server
    mdf_cache,  \* the memoized result of load_global_manifest (its lru_cache)
    pc,         \* position of the caller of the manifest functions
    req,        \* arguments of the current filter_global_manifest / download call
    outcome,    \* what the current call returned or raised
    directory,  \* WorldPopDownloader.directory
    n_jobs,     \* the value of get_max_concurrency()
    undeletable,\* the files whose unlink raises (a read-only directory, a lock)
    fs,         \* the files on disk: path -> content
    args,       \* the argument tuples the pool of download() was given
    jobs,       \* the argument tuples not yet handed to a thread
    res,        \* the results the pool has collected
    workers,    \* the threads running WorldPopDownloader._download_file
    fs_ops,     \* the file operations the current call performed
    stdout,     \* the paths of the "Failed to delete" lines the current call printed
    assets,     \* the local files manifest.feather and raw_manifest_hash.txt
    refresh,    \* the running build_global_manifest call
    raster_args,\* what the current call of a raster.py function was given beyond req
    query       \* the lru_caches of the query helpers and the load that is running

manifest_vars == <<catalog, mdf_cache>>
call_vars == <<pc, req, outcome>>
refresh_vars == <<assets, refresh>>
raster_vars == <<raster_args>>
query_vars == <<query>>
fetch_vars == <<directory, n_jobs, undeletable, fs, args, jobs, res, workers, fs_ops, stdout>>
vars == <<catalog, mdf_cache, pc, req, outcome, directory, n_jobs, undeletable, fs, args, jobs, res, workers, fs_ops, stdout, assets, refresh, raster_args, query>>

(***************************************************************************)
(* Bounds of the model.                                                    *)
(***************************************************************************)
MaxIsoLen == 2      \* longest iso3_codes list a caller passes
MaxYearsLen == 2    \* longest years list a caller passes
NumWorkers == 2     \* threads downloading at the same time
ContentChunks == 2  \* chunks in the body of a raster
MaxAttempts == 2    \* the attempts of one download are counted up to this
MaxNameParts == 3   \* parts after the stem of a generated dataset name

(***************************************************************************)
(* Program constants.                                                      *)
(***************************************************************************)
FIRST_YEAR == 2000
CurrentYear == 2026     \* datetime.now().year
NoYear == -1            \* the None / NaN of the manifest's year column

(***************************************************************************)
(* Characters.                                                             *)
(***************************************************************************)
IsDigit(c) == c \in {"0", "1", "2", "3", "4", "5", "6", "7", "8", "9"}

DigitVal(c) ==
    CASE c = "0" -> 0 [] c = "1" -> 1 [] c = "2" -> 2 [] c = "3" -> 3
      [] c = "4" -> 4 [] c = "5" -> 5 [] c = "6" -> 6 [] c = "7" -> 7
      [] c = "8" -> 8 [] c = "9" -> 9

DigitChar(d) ==
    CASE d = 0 -> "0" [] d = 1 -> "1" [] d = 2 -> "2" [] d = 3 -> "3"
      [] d = 4 -> "4" [] d = 5 -> "5" [] d = 6 -> "6" [] d = 7 -> "7"
      [] d = 8 -> "8" [] d = 9 -> "9"

\* str.upper on one character: the letters the model's strings use
UpperChar(c) ==
    CASE c = "a" -> "A" [] c = "c" -> "C" [] c = "l" -> "L" [] c = "n" -> "N"
      [] c = "p" -> "P" [] c = "s" -> "S" [] c = "u" -> "U" [] c = "z" -> "Z"
      [] OTHER -> c

\* x.upper()
Upper(s) == [i \in 1..Len(s) |-> UpperChar(s[i])]

\* int(s) for a string of digits
RECURSIVE ParseInt(_)
ParseInt(s) ==
    IF s = <<>> THEN 0
    ELSE 10 * ParseInt(SubSeq(s, 1, Len(s) - 1)) + DigitVal(s[Len(s)])

\* str(n) for n >= 0
RECURSIVE FormatInt(_)
FormatInt(n) ==
    IF n < 10 THEN <<DigitChar(n)>>
    ELSE FormatInt(n \div 10) \o <<DigitChar(n % 10)>>

\* whether pat occurs in s at position i
StartsAt(s, pat, i) ==
    /\ i + Len(pat) - 1 <= Len(s)
    /\ \A k \in 1..Len(pat) : s[i + k - 1] = pat[k]

\* s.replace(pat, ''): every non-overlapping occurrence, scanning left to right
RECURSIVE RemoveAll(_, _, _)
RemoveAll(s, pat, i) ==
    IF i > Len(s) THEN <<>>
    ELSE IF StartsAt(s, pat, i) THEN RemoveAll(s, pat, i + Len(pat))
    ELSE <<s[i]>> \o RemoveAll(s, pat, i + 1)

\* s.split(sep)[-1] for a one-character separator
RECURSIVE LastField(_, _)
LastField(s, sep) ==
    IF s = <<>> THEN <<>>
    ELSE IF s[Len(s)] = sep THEN <<>>
    ELSE LastField(SubSeq(s, 1, Len(s) - 1), sep) \o <<s[Len(s)]>>

\* the elements of a sequence, as a set
Range(s) == {s[i] : i \in 1..Len(s)}

(***************************************************************************)
(* Year tokens (manifest.py).                                              *)
(***************************************************************************)
\* _year_pattern.findall(s): the non-overlapping matches of _\d{4}, left to right
RECURSIVE _year_pattern_findall(_, _)
_year_pattern_findall(s, i) ==
    IF i + 4 > Len(s) THEN <<>>
    ELSE IF s[i] = "_" /\ \A k \in 1..4 : IsDigit(s[i + k])
         THEN <<SubSeq(s, i, i + 4)>> \o _year_pattern_findall(s, i + 5)
         ELSE _year_pattern_findall(s, i + 1)

\* a reading of the first year token of a name, whatever follows it
extract_year_first_token(dataset_name) ==
    LET matched == _year_pattern_findall(dataset_name, 1)
    IN  IF Len(matched) < 1
        THEN [raised |-> TRUE, year |-> NoYear]
        ELSE LET year == ParseInt(Tail(matched[1]))
             IN  IF year < FIRST_YEAR \/ year > CurrentYear
                 THEN [raised |-> TRUE, year |-> NoYear]
                 ELSE [raised |-> FALSE, year |-> year]

\* a reading that takes any four digits for a year
extract_year_any_year(dataset_name) ==
    LET matched == _year_pattern_findall(dataset_name, 1)
    IN  IF Len(matched) # 1
        THEN [raised |-> TRUE, year |-> NoYear]
        ELSE [raised |-> FALSE, year |-> ParseInt(Tail(matched[1]))]

\* extract_year: raised = TRUE stands for the ValueError
extract_year(dataset_name) ==
    LET matched == _year_pattern_findall(dataset_name, 1)
    IN  IF Len(matched) # 1
        THEN [raised |-> TRUE, year |-> NoYear]
        ELSE LET year == ParseInt(Tail(matched[1]))
             IN  IF year < FIRST_YEAR \/ year > CurrentYear
                 THEN [raised |-> TRUE, year |-> NoYear]
                 ELSE [raised |-> FALSE, year |-> year]

_looks_like_annual_name(dataset_name) == ~extract_year(dataset_name).raised

\* a stripping that takes the digits out and leaves the underscore
_strip_year_keeps_underscore(dataset_name) ==
    LET year == extract_year(dataset_name).year
    IN  RemoveAll(dataset_name, FormatInt(year), 1)

\* _strip_year, applied to annual names only
_strip_year(dataset_name) ==
    LET year == extract_year(dataset_name).year
    IN  RemoveAll(dataset_name, <<"_">> \o FormatInt(year), 1)

(***************************************************************************)
(* The manifest (manifest.py).                                             *)
(***************************************************************************)
\* a row whose product name is the dataset name, annual or not
CleanRow_name_kept(raw) ==
    LET is_annual == _looks_like_annual_name(raw.dataset_name)
    IN  [dataset_name |-> raw.dataset_name,
         iso3         |-> raw.iso3,
         remote_path  |-> raw.remote_path,
         is_annual    |-> is_annual,
         product_name |-> raw.dataset_name,
         year         |-> IF is_annual THEN extract_year(raw.dataset_name).year
                          ELSE NoYear,
         remote_fname |-> LastField(raw.remote_path, "/")]

\* one row of the cleaned manifest, from one row of the raw catalog
CleanRow(raw) ==
    LET is_annual == _looks_like_annual_name(raw.dataset_name)
    IN  [dataset_name |-> raw.dataset_name,
         iso3         |-> raw.iso3,
         remote_path  |-> raw.remote_path,
         is_annual    |-> is_annual,
         product_name |-> IF is_annual THEN _strip_year(raw.dataset_name)
                          ELSE raw.dataset_name,
         year         |-> IF is_annual THEN extract_year(raw.dataset_name).year
                          ELSE NoYear,
         remote_fname |-> LastField(raw.remote_path, "/")]

\* build_global_manifest: the cleaned table of a raw catalog
build_global_manifest(raw_csv) == [i \in 1..Len(raw_csv) |-> CleanRow(raw_csv[i])]

\* a load that does not look at the raster formats
load_global_manifest_formats_unchecked(raw_csv) ==
    LET mdf == build_global_manifest(raw_csv)
        duplicated == \E i, j \in 1..Len(mdf) :
                         /\ i < j
                         /\ mdf[i].dataset_name = mdf[j].dataset_name
                         /\ mdf[i].iso3 = mdf[j].iso3
    IN  IF duplicated THEN [raised |-> TRUE, mdf |-> <<>>]
        ELSE [raised |-> FALSE, mdf |-> mdf]

\* lines 80-92: the table read from the Feather file, or the ValueError of a
\* bad manifest
CheckManifest(mdf) ==
    LET duplicated == \E i, j \in 1..Len(mdf) :
                         /\ i < j
                         /\ mdf[i].dataset_name = mdf[j].dataset_name
                         /\ mdf[i].iso3 = mdf[j].iso3
        raster_formats == {LastField(mdf[i].remote_path, ".") : i \in 1..Len(mdf)}
    IN  IF duplicated THEN [raised |-> TRUE, mdf |-> <<>>]
        ELSE IF raster_formats # {<<"t", "i", "f">>} THEN [raised |-> TRUE, mdf |-> <<>>]
        ELSE [raised |-> FALSE, mdf |-> mdf]

\* load_global_manifest: the cleaned table, or the ValueError of a bad manifest
load_global_manifest(raw_csv) == CheckManifest(build_global_manifest(raw_csv))

get_all_isos(mdf) == {mdf[i].iso3 : i \in 1..Len(mdf)}

get_static_product_names(mdf) ==
    {mdf[i].product_name : i \in {k \in 1..Len(mdf) : ~mdf[k].is_annual}}

get_annual_product_names(mdf) ==
    {mdf[i].product_name : i \in {k \in 1..Len(mdf) : mdf[k].is_annual}}

get_all_annual_product_years(mdf) ==
    {mdf[i].year : i \in {k \in 1..Len(mdf) : mdf[k].is_annual}}

get_all_dataset_names(mdf) == {mdf[i].dataset_name : i \in 1..Len(mdf)}

(***************************************************************************)
(* The query resolver (manifest.py, filter_global_manifest).               *)
(***************************************************************************)
\* the set difference _check_isos_exist raises on when it is not empty
_check_isos_exist(iso3_codes, mdf) == Range(iso3_codes) \ get_all_isos(mdf)

\* a product check that does not tell annual from static products
_check_product_exists_any_category(product_name, years, mdf) ==
    IF ~extract_year(product_name).raised THEN "InvalidQuery"
    ELSE IF product_name \notin
                get_static_product_names(mdf) \cup get_annual_product_names(mdf)
         THEN "UnknownProduct" ELSE "passed"

\* _check_product_exists: which of its errors, if any, it raises
_check_product_exists(product_name, years, mdf) ==
    IF ~extract_year(product_name).raised THEN "InvalidQuery"
    ELSE IF years.none
         THEN IF product_name \notin get_static_product_names(mdf)
              THEN "UnknownProduct" ELSE "passed"
         ELSE IF product_name \notin get_annual_product_names(mdf)
              THEN "UnknownProduct" ELSE "passed"

\* lines 189-190: a single year becomes a one-element list
CoerceYears(years) ==
    IF years.kind = "scalar" THEN [none |-> FALSE, list |-> <<years.scalar>>]
    ELSE IF years.kind = "none" THEN [none |-> TRUE, list |-> <<>>]
    ELSE [none |-> FALSE, list |-> years.list]

\* a coercion that keeps the case of the codes
CoerceIsos_case_kept(iso3_codes) ==
    IF iso3_codes.kind = "str" THEN <<iso3_codes.str>> ELSE iso3_codes.list

\* lines 191-193: a single code becomes a one-element list; codes are upper-cased
CoerceIsos(iso3_codes) ==
    LET codes == IF iso3_codes.kind = "str" THEN <<iso3_codes.str>> ELSE iso3_codes.list
    IN  [i \in 1..Len(codes) |-> Upper(codes[i])]

Raised(kind, unknown_isos) == [kind |-> kind, rows |-> <<>>, unknown_isos |-> unknown_isos,
     paths |-> <<>>]

\* lines 201-203: the rows of the manifest the request selects
FilteredRows(mdf, product_name, iso3_codes, years) ==
    LET ByIsoAndProduct(r) == r.iso3 \in Range(iso3_codes) /\ r.product_name = product_name
        ByYear(r) == r.year \in Range(years.list)
        filtered_df == SelectSeq(mdf, ByIsoAndProduct)
    IN  IF years.none THEN filtered_df ELSE SelectSeq(filtered_df, ByYear)

\* lines 208-220: the number of rows the request must select
NumExpected(iso3_codes, years) ==
    IF years.none THEN Len(iso3_codes) ELSE Len(iso3_codes) * Len(years.list)

\* a resolver that checks the product before the countries
filter_global_manifest_product_first(loaded, product_name, iso3_arg, years_arg) ==
    LET years == CoerceYears(years_arg)
        iso3_codes == CoerceIsos(iso3_arg)
        mdf == loaded.mdf
        unknown_isos == _check_isos_exist(iso3_codes, mdf)
        product_check == _check_product_exists(product_name, years, mdf)
        filtered_df == FilteredRows(mdf, product_name, iso3_codes, years)
        num_expected == NumExpected(iso3_codes, years)
    IN  IF loaded.raised THEN Raised("IntegrityError", {})
        ELSE IF product_check # "passed" THEN Raised(product_check, {})
        ELSE IF unknown_isos # {} THEN Raised("UnknownCountry", unknown_isos)
        ELSE IF Len(filtered_df) < num_expected THEN Raised("IncompleteCoverage", {})
        ELSE IF num_expected # Len(filtered_df) THEN Raised("AssertionError", {})
        ELSE [kind |-> "returned", rows |-> filtered_df, unknown_isos |-> {}, paths |-> <<>>]

\* loaded: what load_global_manifest() gives this call (memoized or loaded now)
filter_global_manifest(loaded, product_name, iso3_arg, years_arg) ==
    LET years == CoerceYears(years_arg)
        iso3_codes == CoerceIsos(iso3_arg)
        mdf == loaded.mdf
        unknown_isos == _check_isos_exist(iso3_codes, mdf)
        product_check == _check_product_exists(product_name, years, mdf)
        filtered_df == FilteredRows(mdf, product_name, iso3_codes, years)
        num_expected == NumExpected(iso3_codes, years)
    IN  IF loaded.raised THEN Raised("IntegrityError", {})
        ELSE IF unknown_isos # {} THEN Raised("UnknownCountry", unknown_isos)
        ELSE IF product_check # "passed" THEN Raised(product_check, {})
        ELSE IF Len(filtered_df) < num_expected THEN Raised("IncompleteCoverage", {})
        ELSE IF num_expected # Len(filtered_df) THEN Raised("AssertionError", {})
        ELSE [kind |-> "returned", rows |-> filtered_df, unknown_isos |-> {}, paths |-> <<>>]

(***************************************************************************)
(* Catalogs and requests the model draws from.                             *)
(***************************************************************************)
NZL == <<"N", "Z", "L">>
AUS == <<"A", "U", "S">>
nzl == <<"n", "z", "l">>

ppp == <<"p", "p", "p">>
ppp_2020 == <<"p", "p", "p", "_", "2", "0", "2", "0">>
ppp_2021 == <<"p", "p", "p", "_", "2", "0", "2", "1">>
p_c == <<"p", "_", "c">>                                \* static
p_c_2020 == <<"p", "_", "c", "_", "2", "0", "2", "0">>  \* annual: p_c, 2020
p_2020_c == <<"p", "_", "2", "0", "2", "0", "_", "c">>  \* annual: p_c, 2020
s_2000_2020 == <<"s", "_", "2", "0", "0", "0", "_", "2", "0", "2", "0">>  \* static: two tokens
q_1889 == <<"q", "_", "1", "8", "8", "9">>              \* static: implausible year
x_20_202021 == <<"x", "_", "2", "0", "_", "2", "0", "2", "0", "2", "1">>  \* annual: x_2021, 2020
x_2021 == <<"x", "_", "2", "0", "2", "1">>
zzz == <<"z", "z", "z">>

Tif(name, iso) == iso \o <<"/">> \o name \o <<".", "t", "i", "f">>
Zip(name, iso) == iso \o <<"/">> \o name \o <<".", "z", "i", "p">>
Row(name, iso) == [dataset_name |-> name, iso3 |-> iso, remote_path |-> Tif(name, iso)]

\* full coverage of an annual and of a static product
CatFull ==
    <<Row(ppp_2020, NZL), Row(ppp_2020, AUS), Row(ppp_2021, NZL), Row(ppp_2021, AUS),
      Row(p_c, NZL), Row(p_c, AUS), Row(s_2000_2020, NZL)>>
\* partial coverage
CatPartial ==
    <<Row(ppp_2020, NZL), Row(ppp_2021, NZL), Row(ppp_2021, AUS),
      Row(p_c, NZL), Row(q_1889, AUS), Row(x_20_202021, AUS)>>
\* two dataset names of one country with the same product name and year
CatSameKey ==
    <<Row(p_c_2020, NZL), Row(p_2020_c, NZL), Row(ppp_2020, AUS), Row(q_1889, AUS)>>
\* a product name that is static for one country and annual for another
CatBothKinds ==
    <<Row(p_c_2020, NZL), Row(p_c, AUS), Row(ppp_2020, NZL), Row(ppp_2020, AUS)>>
\* rejected on load: a duplicated (dataset_name, iso3) pair
CatDuplicated ==
    <<Row(ppp_2020, NZL), Row(ppp_2020, NZL), Row(p_c, AUS)>>
\* rejected on load: a raster that is no .tif
CatNotTif ==
    <<Row(ppp_2020, NZL), [dataset_name |-> p_c, iso3 |-> AUS, remote_path |-> Zip(p_c, AUS)]>>

\* rejected on load: every raster of one format, which is not .tif
CatAllZip ==
    <<[dataset_name |-> ppp_2020, iso3 |-> NZL, remote_path |-> Zip(ppp_2020, NZL)],
      [dataset_name |-> p_c, iso3 |-> AUS, remote_path |-> Zip(p_c, AUS)]>>

Catalogs ==
    {CatFull, CatPartial, CatSameKey, CatBothKinds, CatDuplicated, CatNotTif, CatAllZip}

RECURSIVE SeqsUpTo(_, _)
SeqsUpTo(S, n) ==
    IF n = 0 THEN {<<>>}
    ELSE LET shorter == SeqsUpTo(S, n - 1)
         IN  shorter \cup {Append(s, x) : s \in shorter, x \in S}

ProductArgs == {ppp, p_c, ppp_2020, s_2000_2020, x_2021, NZL, zzz}
IsoCodeArgs == {NZL, nzl, AUS, ppp_2020}
YearArgs == {2020, 2021, 2099}

IsoArgs ==
    {[kind |-> "str", str |-> c, list |-> <<>>] : c \in IsoCodeArgs}
    \cup {[kind |-> "list", str |-> <<>>, list |-> l] : l \in SeqsUpTo(IsoCodeArgs, MaxIsoLen)}

YearsArgs ==
    {[kind |-> "none", scalar |-> NoYear, list |-> <<>>]}
    \cup {[kind |-> "scalar", scalar |-> y, list |-> <<>>] : y \in YearArgs}
    \cup {[kind |-> "list", scalar |-> NoYear, list |-> l] : l \in SeqsUpTo(YearArgs, MaxYearsLen)}

NoRequest == [product_name |-> <<>>,
              iso3_codes |-> [kind |-> "list", str |-> <<>>, list |-> <<>>],
              years |-> [kind |-> "none", scalar |-> NoYear, list |-> <<>>]]
NoOutcome == [kind |-> "none", rows |-> <<>>, unknown_isos |-> {}, paths |-> <<>>]

(***************************************************************************)
(* The resolver as a state machine: a caller calls filter_global_manifest  *)
(* against the catalog of this process, and the call returns or raises.    *)
(***************************************************************************)
IdleWorker ==
    [pc |-> "idle", remote_path |-> <<>>, local_path |-> [dir |-> "cache", name |-> <<>>],
     skip_if_exists |-> TRUE, fd |-> "closed", written |-> 0, total |-> 0, attempts |-> 0,
     error |-> "none"]

\* lru_cache: the memoized value if there is one, else a load
Memoized(cache, raw_csv) == IF ~cache.raised THEN cache ELSE load_global_manifest(raw_csv)

NotLoaded == [raised |-> TRUE, mdf |-> <<>>]

\* a file that does not exist, a value that was not read, a download not made
Missing == [missing |-> TRUE]
\* no function of raster.py is running
NoRasterArgs == [fn |-> "none"]
NoAssets == [manifest |-> Missing, raw_hash |-> Missing]
\* the query helpers of manifest.py lines 237-303
Helpers == {"get_all_isos", "get_static_product_names", "get_annual_product_names",
            "get_all_annual_product_years", "get_all_dataset_names"}
\* no load is running and no helper has a memoized value
NoQuery == [fn |-> "none", before |-> NoAssets, cache |-> [h \in Helpers |-> Missing]]
NoRefresh ==
    [pc |-> "idle", overwrite |-> FALSE, local_hash |-> Missing, remote_hash |-> Missing,
     tmp_csv |-> Missing, transfers |-> {}, error |-> "none"]

\* get_max_concurrency: the environment variable, a string, when it is set,
\* else DEFAULT_MAX_CONCURRENCY = cpu_count() - 1
get_max_concurrency(env, cpu_count) ==
    IF env = "set" THEN [type |-> "str", value |-> NumWorkers]
    ELSE [type |-> "int", value |-> cpu_count - 1]

\* the threads of pqdm's ThreadPoolExecutor(max_workers=n_jobs): the executor
\* raises ValueError for 0 and TypeError for a string, and no thread starts
PoolSize(max_workers) ==
    IF max_workers.type = "int" /\ max_workers.value > 0 THEN max_workers.value ELSE 0

InitResolver ==
    /\ catalog \in Catalogs
    /\ mdf_cache = NotLoaded
    /\ pc = "idle"
    /\ req = NoRequest
    /\ outcome = NoOutcome
    /\ directory = "cache"
    /\ n_jobs = get_max_concurrency("unset", NumWorkers + 1)
    /\ undeletable = {}
    /\ fs = <<>>
    /\ args = {}
    /\ jobs = {}
    /\ res = {}
    /\ workers = [w \in 1..NumWorkers |-> IdleWorker]
    /\ fs_ops = {}
    /\ stdout = {}
    /\ assets = NoAssets
    /\ refresh = NoRefresh
    /\ raster_args = NoRasterArgs
    /\ query = NoQuery

\* a call of load_global_manifest(): a value is memoized, an exception is not
CallLoad ==
    /\ pc = "idle"
    /\ mdf_cache.raised
    /\ mdf_cache' = load_global_manifest(catalog)
    /\ outcome' = IF mdf_cache'.raised THEN Raised("IntegrityError", {})
                  ELSE [kind |-> "loaded", rows |-> <<>>, unknown_isos |-> {}, paths |-> <<>>]
    /\ pc' = "called"
    /\ UNCHANGED <<catalog, req, fetch_vars, refresh_vars, raster_vars, query_vars>>

CallFilter ==
    /\ pc = "idle"
    /\ LET loaded == Memoized(mdf_cache, catalog)
       IN  /\ mdf_cache' = loaded
           /\ \E p \in ProductArgs, i \in IsoArgs, y \in YearsArgs :
                  /\ req' = [product_name |-> p, iso3_codes |-> i, years |-> y]
                  /\ outcome' = filter_global_manifest(loaded, p, i, y)
    /\ pc' = "called"
    /\ UNCHANGED <<catalog, fetch_vars, refresh_vars, raster_vars, query_vars>>

CallReturns ==
    /\ pc = "called"
    /\ pc' = "idle"
    /\ req' = NoRequest
    /\ outcome' = NoOutcome
    /\ fs_ops' = {}
    /\ stdout' = {}
    /\ raster_args' = NoRasterArgs
    /\ UNCHANGED <<catalog, mdf_cache, directory, n_jobs, undeletable, fs, args, jobs, res, workers, refresh_vars, query_vars>>

NextResolver == CallLoad \/ CallFilter \/ CallReturns

SpecResolver == InitResolver /\ [][NextResolver]_vars

(***************************************************************************)
(* The download engine (download.py).                                      *)
(*                                                                         *)
(* A file's content is the sequence of the chunks written to it, each      *)
(* chunk named by the remote path it was read from.  A thread's open file  *)
(* follows its inode: fd says whether that inode is still at the temporary *)
(* path ("tmp"), was renamed to the final path ("final") or has no name    *)
(* any more ("detached").                                                  *)
(***************************************************************************)
\* a pool that starts a thread for every tuple at hand
HasThread_unlimited(w, max_workers) == w \in 1..NumWorkers

\* thread w is one of the pool's
HasThread(w, max_workers) == w <= PoolSize(max_workers)

\* get_cache_dir(), a directory below it, and some other directory
Dirs == {"cache", "cache/sub", "other"}
UnderCacheRoot(dir) == dir \in {"cache", "cache/sub"}
TifSuffix == <<".", "t", "i", "f">>
DownloadSuffix == <<".", "d", "o", "w", "n", "l", "o", "a", "d">>
Hole == <<>>                    \* bytes of a file that nothing wrote

EndsWith(s, suffix) ==
    /\ Len(s) >= Len(suffix)
    /\ SubSeq(s, Len(s) - Len(suffix) + 1, Len(s)) = suffix

_build_local_fname(product_name, iso3, year) ==
    IF year = NoYear
    THEN product_name \o <<"_">> \o iso3 \o TifSuffix
    ELSE product_name \o <<"_">> \o iso3 \o <<"_">> \o FormatInt(year) \o TifSuffix

\* line 155: local_path.with_suffix(local_path.suffix + ".download")
TmpPath(local_path) ==
    [dir |-> local_path.dir, name |-> local_path.name \o DownloadSuffix]

IsFile(files, path) == path \in DOMAIN files

\* open(path, "wb+"), and the writes: the file at path gets this content
WriteFile(files, path, data) ==
    [x \in DOMAIN files \cup {path} |-> IF x = path THEN data ELSE files[x]]

Unlink(files, paths) == [x \in DOMAIN files \ paths |-> files[x]]

\* path.rename(target): replaces the target
Rename(files, path, target) ==
    [x \in (DOMAIN files \ {path}) \cup {target} |->
        IF x = target THEN files[path] ELSE files[x]]

\* f.write(chunk) at the position of the file object
WriteAt(data, pos, chunk) ==
    IF pos <= Len(data) THEN [data EXCEPT ![pos] = chunk]
    ELSE data \o [i \in 1..(pos - Len(data) - 1) |-> Hole] \o <<chunk>>

\* the open files of all threads once the files at paths lost their names
FdsAfterUnlink(ws, paths) ==
    [w \in DOMAIN ws |->
        IF \/ ws[w].fd = "tmp" /\ TmpPath(ws[w].local_path) \in paths
           \/ ws[w].fd = "final" /\ ws[w].local_path \in paths
        THEN [ws[w] EXCEPT !.fd = "detached"]
        ELSE ws[w]]

\* the open files of all threads once the temporary file of local_path was renamed
FdsAfterRename(ws, local_path) ==
    [w \in DOMAIN ws |->
        IF ws[w].local_path # local_path THEN ws[w]
        ELSE IF ws[w].fd = "final" THEN [ws[w] EXCEPT !.fd = "detached"]
        ELSE IF ws[w].fd = "tmp" THEN [ws[w] EXCEPT !.fd = "final"]
        ELSE ws[w]]

\* a repair pass that deletes every file under get_cache_dir()
repair_cache_every_file(files) == {path \in DOMAIN files : UnderCacheRoot(path.dir)}

\* a repair pass that globs '*.download', the cache directory alone
repair_cache_top_level_only(files) ==
    {path \in DOMAIN files : path.dir = "cache" /\ EndsWith(path.name, DownloadSuffix)}

\* repair_cache, lines 192-193: the files that glob '**/*.download' finds
\* under get_cache_dir()
repair_cache(files) ==
    {path \in DOMAIN files :
        UnderCacheRoot(path.dir) /\ EndsWith(path.name, DownloadSuffix)}

\* lines 146-157: one attempt starts with the skip test and, unless the file
\* is skipped, opens the temporary file, which creates or truncates it
Attempt(me, files) ==
    IF IsFile(files, me.local_path) /\ me.skip_if_exists
    THEN [worker |-> [IdleWorker EXCEPT !.pc = "skipped", !.remote_path = me.remote_path],
          files  |-> files]
    ELSE [worker |-> [me EXCEPT !.pc = "opened", !.fd = "tmp", !.written = 0, !.total = 0,
                                !.error = "none"],
          files  |-> WriteFile(files, TmpPath(me.local_path), <<>>)]

\* an HTTPError that is swallowed: the call goes on to the rename
AfterHTTPError_swallowed(me) == [me EXCEPT !.pc = "downloaded", !.fd = "closed"]

\* an HTTPError leaves the with blocks, which closes the file, and is caught by
\* backoff.on_exception, which calls _download_file again
AfterHTTPError(me) == [me EXCEPT !.pc = "backoff", !.fd = "closed"]

\* an exception of any kind that backoff catches and retries
AfterOtherError_retried(me) == [me EXCEPT !.pc = "backoff", !.fd = "closed"]

\* any other exception leaves the with blocks and propagates: the call is
\* over, its file closed and its local variables gone (the job, the exception
\* and the number of attempts made are kept)
AfterOtherError(me) ==
    [IdleWorker EXCEPT !.pc = "failed", !.remote_path = me.remote_path,
                       !.attempts = me.attempts, !.error = me.error]

Running == {"opened", "streaming", "downloaded", "backoff"}

\* lines 102-107: the argument tuples download() builds for the rows of a
\* request: (remote, local, skip_download_if_exists)
DownloadArgs(rows, dir, skip) ==
    {[remote_path |-> rows[i].remote_path,
      local_path |-> [dir |-> dir,
                      name |-> _build_local_fname(rows[i].product_name, rows[i].iso3,
                                                  rows[i].year)],
      skip_if_exists |-> skip] : i \in 1..Len(rows)}

\* lines 109-116: a free thread of the pool (the first one, the threads being
\* alike) is handed one argument tuple and calls
\* _download_file(remote_path, local_path, skip_if_exists) with it
CallDownloadFile(w) ==
    /\ workers[w].pc = "idle"
    /\ HasThread(w, n_jobs)
    /\ \A v \in 1..(w - 1) : workers[v].pc # "idle"
    /\ \E job \in jobs :
          LET me == [IdleWorker EXCEPT !.remote_path = job.remote_path,
                                       !.local_path = job.local_path,
                                       !.skip_if_exists = job.skip_if_exists,
                                       !.attempts = 1]
              began == Attempt(me, fs)
          IN  /\ jobs' = jobs \ {job}
              /\ workers' = [workers EXCEPT ![w] = began.worker]
              /\ fs' = began.files
    /\ UNCHANGED <<manifest_vars, call_vars, directory, n_jobs, undeletable, args, res, fs_ops, stdout, refresh_vars, raster_vars, query_vars>>

\* lines 158-159: the request is sent; the response declares its Content-Length
ResponseArrives(w) ==
    /\ workers[w].pc = "opened"
    /\ workers' = [workers EXCEPT ![w].pc = "streaming", ![w].total = ContentChunks]
    /\ UNCHANGED <<manifest_vars, call_vars, directory, n_jobs, undeletable, fs, args, jobs, res, fs_ops, stdout, refresh_vars, raster_vars, query_vars>>

\* line 159: the response has no Content-Length header: KeyError
NoContentLength(w) ==
    /\ workers[w].pc = "opened"
    /\ workers' = [workers EXCEPT
                       ![w] = AfterOtherError([workers[w] EXCEPT !.error = "KeyError"])]
    /\ UNCHANGED <<manifest_vars, call_vars, directory, n_jobs, undeletable, fs, args, jobs, res, fs_ops, stdout, refresh_vars, raster_vars, query_vars>>

\* lines 167-168: one chunk is read and written to the open file
WriteChunk(w) ==
    LET me == workers[w]
        target == IF me.fd = "tmp" THEN TmpPath(me.local_path) ELSE me.local_path
    IN  /\ me.pc = "streaming"
        /\ me.written < me.total
        /\ workers' = [workers EXCEPT ![w].written = me.written + 1]
        /\ fs' = IF me.fd = "detached" THEN fs
                 ELSE WriteFile(fs, target, WriteAt(fs[target], me.written + 1, me.remote_path))
        /\ UNCHANGED <<manifest_vars, call_vars, directory, n_jobs, undeletable, args, jobs, res, fs_ops, stdout, refresh_vars, raster_vars, query_vars>>

\* lines 158, 167: httpx raises an HTTPError: the connection fails, or the body
\* ends before the declared Content-Length is read
HTTPErrorRaised(w) ==
    /\ \/ workers[w].pc = "opened"
       \/ workers[w].pc = "streaming" /\ workers[w].written < workers[w].total
    /\ workers' = [workers EXCEPT
                       ![w] = AfterHTTPError([workers[w] EXCEPT !.error = "HTTPError"])]
    /\ UNCHANGED <<manifest_vars, call_vars, directory, n_jobs, undeletable, fs, args, jobs, res, fs_ops, stdout, refresh_vars, raster_vars, query_vars>>

\* line 168: the write fails (disk full, permission denied): OSError
WriteFails(w) ==
    /\ workers[w].pc = "streaming"
    /\ workers[w].written < workers[w].total
    /\ workers' = [workers EXCEPT
                       ![w] = AfterOtherError([workers[w] EXCEPT !.error = "OSError"])]
    /\ UNCHANGED <<manifest_vars, call_vars, directory, n_jobs, undeletable, fs, args, jobs, res, fs_ops, stdout, refresh_vars, raster_vars, query_vars>>

\* line 167: the body was read to its declared end; the file is closed
StreamEnds(w) ==
    /\ workers[w].pc = "streaming"
    /\ workers[w].written = workers[w].total
    /\ workers' = [workers EXCEPT ![w].pc = "downloaded", ![w].fd = "closed"]
    /\ UNCHANGED <<manifest_vars, call_vars, directory, n_jobs, undeletable, fs, args, jobs, res, fs_ops, stdout, refresh_vars, raster_vars, query_vars>>

\* line 174: tmp_path.rename(local_path); FileNotFoundError if the file is gone
RenameTmp(w) ==
    LET me == workers[w]
    IN  /\ me.pc = "downloaded"
        /\ IF IsFile(fs, TmpPath(me.local_path))
           THEN /\ fs' = Rename(fs, TmpPath(me.local_path), me.local_path)
                /\ workers' = [FdsAfterRename(workers, me.local_path) EXCEPT ![w].pc = "renamed"]
           ELSE /\ fs' = fs
                /\ workers' = [workers EXCEPT
                                   ![w] = AfterOtherError([me EXCEPT !.error = "FileNotFoundError"])]
        /\ UNCHANGED <<manifest_vars, call_vars, directory, n_jobs, undeletable, args, jobs, res, fs_ops, stdout, refresh_vars, raster_vars, query_vars>>

\* one more attempt, counted up to MaxAttempts
NextAttempt(attempts) == IF attempts < MaxAttempts THEN attempts + 1 ELSE attempts

\* backoff calls _download_file again, with the same arguments; the decorator
\* of line 121 sets no max_tries and no max_time
Retry(w) ==
    LET began == Attempt([workers[w] EXCEPT !.attempts = NextAttempt(@)], fs)
    IN  /\ workers[w].pc = "backoff"
        /\ workers' = [workers EXCEPT ![w] = began.worker]
        /\ fs' = began.files
        /\ UNCHANGED <<manifest_vars, call_vars, directory, n_jobs, undeletable, args, jobs, res, fs_ops, stdout, refresh_vars, raster_vars, query_vars>>

\* the thread is interrupted (the process is killed, the pool is cancelled)
Interrupt(w) ==
    /\ workers[w].pc \in Running
    /\ workers' = [workers EXCEPT ![w] = [IdleWorker EXCEPT !.pc = "interrupted"]]
    /\ UNCHANGED <<manifest_vars, call_vars, directory, n_jobs, undeletable, fs, args, jobs, res, fs_ops, stdout, refresh_vars, raster_vars, query_vars>>

\* _download_file has returned or raised; the thread is free for the next tuple
WorkerDone(w) ==
    /\ workers[w].pc \in {"skipped", "renamed", "failed"}
    /\ workers' = [workers EXCEPT ![w] = IdleWorker]
    /\ res' = res \cup {[remote_path |-> workers[w].remote_path,
                          result |-> workers[w].error]}
    /\ UNCHANGED <<manifest_vars, call_vars, directory, n_jobs, undeletable, fs, args, jobs, fs_ops, stdout, refresh_vars, raster_vars, query_vars>>

(***************************************************************************)
(* WorldPopDownloader.download (lines 95-119).                             *)
(***************************************************************************)
AsList(codes) == [kind |-> "list", str |-> <<>>, list |-> codes]
AsStr(code) == [kind |-> "str", str |-> code, list |-> <<>>]
Years(ys) == [kind |-> "list", scalar |-> NoYear, list |-> ys]
OneYear(y) == [kind |-> "scalar", scalar |-> y, list |-> <<>>]
NoYears == [kind |-> "none", scalar |-> NoYear, list |-> <<>>]

FetchRequests ==
    {[product_name |-> ppp, iso3_codes |-> AsList(<<NZL, AUS>>), years |-> Years(<<2020>>)],
     [product_name |-> p_c, iso3_codes |-> AsList(<<NZL, AUS>>), years |-> OneYear(2020)],
     [product_name |-> ppp, iso3_codes |-> AsList(<<>>), years |-> Years(<<2020>>)],
     [product_name |-> ppp, iso3_codes |-> AsStr(ppp_2020), years |-> OneYear(2020)],
     [product_name |-> ppp_2020, iso3_codes |-> AsStr(NZL), years |-> OneYear(2020)],
     [product_name |-> zzz, iso3_codes |-> AsList(<<NZL>>), years |-> NoYears],
     [product_name |-> ppp, iso3_codes |-> AsList(<<AUS>>), years |-> Years(<<2020, 2099>>)]}

\* lines 101-119 for the rows of a resolved request: build_local_fname is no name
\* of the module, so building the first local path raises NameError; with no
\* row nothing is built, the pool has no job and the empty list is returned
AssemblePaths(resolved) ==
    IF Len(resolved.rows) > 0 THEN Raised("NameError", {})
    ELSE [kind |-> "returned", rows |-> <<>>, unknown_isos |-> {}, paths |-> <<>>]

Download ==
    /\ pc = "idle"
    /\ LET \* lines 195-199: an unlink that raises is reported and passed over
           failed == repair_cache(fs) \cap undeletable
           deleted == repair_cache(fs) \ failed
       IN  /\ fs' = Unlink(fs, deleted)
           /\ workers' = FdsAfterUnlink(workers, deleted)
           /\ fs_ops' = {[op |-> "unlink", path |-> path] : path \in deleted}
           /\ stdout' = failed
    /\ LET loaded == Memoized(mdf_cache, catalog)
       IN  /\ mdf_cache' = loaded
           /\ \E r \in FetchRequests :
                 LET resolved == filter_global_manifest(loaded, r.product_name,
                                                        r.iso3_codes, r.years)
                 IN  /\ req' = r
                     /\ outcome' = IF resolved.kind = "returned"
                                   THEN AssemblePaths(resolved) ELSE resolved
    /\ pc' = "called"
    /\ UNCHANGED <<catalog, directory, n_jobs, undeletable, args, jobs, res, refresh_vars, raster_vars, query_vars>>

\* the characters of the names, in the order of their code points
CodePoints ==
    <<".", "/", "0", "1", "2", "3", "4", "5", "6", "7", "8", "9",
      "A", "B", "C", "D", "E", "F", "G", "H", "I", "J", "K", "L", "M",
      "N", "O", "P", "Q", "R", "S", "T", "U", "V", "W", "X", "Y", "Z", "_",
      "a", "b", "c", "d", "e", "f", "g", "h", "i", "j", "k", "l", "m",
      "n", "o", "p", "q", "r", "s", "t", "u", "v", "w", "x", "y", "z">>
Ord(c) == CHOOSE i \in 1..Len(CodePoints) : CodePoints[i] = c

\* a < b for two strings
RECURSIVE LexLess(_, _)
LexLess(a, b) ==
    IF b = <<>> THEN FALSE
    ELSE IF a = <<>> THEN TRUE
    ELSE IF a[1] # b[1] THEN Ord(a[1]) < Ord(b[1])
    ELSE LexLess(Tail(a), Tail(b))

\* sorted(local_paths), the paths being in one directory
RECURSIVE sorted(_)
sorted(local_paths) ==
    IF local_paths = <<>> THEN <<>>
    ELSE LET least == CHOOSE i \in 1..Len(local_paths) :
                          \A j \in 1..Len(local_paths) :
                              ~LexLess(local_paths[j].name, local_paths[i].name)
             rest == [k \in 1..(Len(local_paths) - 1) |->
                         IF k < least THEN local_paths[k] ELSE local_paths[k + 1]]
         IN  <<local_paths[least]>> \o sorted(rest)

\* the local paths of the argument tuples, one per tuple
RECURSIVE LocalPaths(_)
LocalPaths(tuples) ==
    IF tuples = {} THEN <<>>
    ELSE LET t == CHOOSE x \in tuples : TRUE
         IN  <<t.local_path>> \o LocalPaths(tuples \ {t})

\* lines 109-119: pqdm has collected one result per argument tuple, the
\* exception of a call that raised being its result (exception_behaviour is
\* left at 'ignore'); the assert on the lengths holds and download() returns
\* the sorted local paths
PoolReturns ==
    /\ pc = "idle"
    /\ args # {}
    /\ Cardinality(res) = Cardinality(args)
    /\ pc' = "called"
    /\ outcome' = [kind |-> "returned", rows |-> <<>>, unknown_isos |-> {},
                   paths |-> sorted(LocalPaths(args))]
    /\ args' = {}
    /\ UNCHANGED <<manifest_vars, req, directory, n_jobs, undeletable, fs, jobs, res, workers, fs_ops, stdout, refresh_vars, raster_vars, query_vars>>

\* two datasets of one product, country and year, and a third raster
CatCollide ==
    <<Row(p_c_2020, NZL), Row(p_2020_c, NZL), Row(ppp_2020, NZL), Row(ppp_2020, AUS)>>

FetchCatalogs == {CatCollide}

\* a download() call that has built the argument tuples of a resolved request
\* (line 107) and is about to start its pool, in an empty directory
InitFetch ==
    /\ catalog \in FetchCatalogs
    /\ mdf_cache = load_global_manifest(catalog)
    /\ pc = "idle"
    /\ req = NoRequest
    /\ outcome = NoOutcome
    /\ directory \in {"cache", "other"}
    /\ undeletable = {}
    \* one core, two cores, and cores enough for a pool of NumWorkers threads
    /\ \E env \in {"unset", "set"}, cpus \in {1, 2, NumWorkers + 1} :
          n_jobs = get_max_concurrency(env, cpus)
    /\ fs = <<>>
    /\ \E r \in FetchRequests, skip \in BOOLEAN :
          LET resolved == filter_global_manifest(mdf_cache, r.product_name,
                                                 r.iso3_codes, r.years)
          IN  /\ resolved.kind = "returned"
              /\ args = DownloadArgs(resolved.rows, directory, skip)
    /\ jobs = args
    /\ res = {}
    /\ workers = [w \in 1..NumWorkers |-> IdleWorker]
    /\ fs_ops = {}
    /\ stdout = {}
    /\ assets = NoAssets
    /\ refresh = NoRefresh
    /\ raster_args = NoRasterArgs
    /\ query = NoQuery

\* download() is one step of its caller, and its return or raise is the next
\* step: the threads take their steps before the call or after it
NextFetch ==
    \/ Download
    \/ PoolReturns
    \/ CallReturns
    \/ \E w \in 1..NumWorkers :
          \/ pc = "idle" /\ CallDownloadFile(w)
          \/ pc = "idle" /\ ResponseArrives(w)
          \/ pc = "idle" /\ NoContentLength(w)
          \/ pc = "idle" /\ WriteChunk(w)
          \/ pc = "idle" /\ HTTPErrorRaised(w)
          \/ pc = "idle" /\ WriteFails(w)
          \/ pc = "idle" /\ StreamEnds(w)
          \/ pc = "idle" /\ RenameTmp(w)
          \/ pc = "idle" /\ Retry(w)
          \/ pc = "idle" /\ Interrupt(w)
          \/ pc = "idle" /\ WorkerDone(w)

SpecFetch == InitFetch /\ [][NextFetch]_vars

\* the threads and the caller keep running and the server keeps answering, in
\* one way or another; an interruption may never come
ThreadRuns(w) ==
    /\ pc = "idle"
    /\ \/ CallDownloadFile(w)
       \/ ResponseArrives(w)
       \/ NoContentLength(w)
       \/ WriteChunk(w)
       \/ HTTPErrorRaised(w)
       \/ WriteFails(w)
       \/ StreamEnds(w)
       \/ RenameTmp(w)
       \/ Retry(w)
       \/ WorkerDone(w)

SpecFetchFair ==
    /\ SpecFetch
    /\ WF_vars(CallReturns)
    /\ WF_vars(PoolReturns)
    /\ \A w \in 1..NumWorkers : SF_vars(ThreadRuns(w))

\* the sum of path.stat().st_size over the paths, in chunks
RECURSIVE SizeOf(_, _)
SizeOf(files, paths) ==
    IF paths = {} THEN 0
    ELSE LET path == CHOOSE x \in paths : TRUE
         IN  Len(files[path]) + SizeOf(files, paths \ {path})

\* a purge that deletes whether or not it is a dry run
purge_cache_no_preview(files, dry_run, locked) ==
    LET fpaths == {path \in DOMAIN files :
                      UnderCacheRoot(path.dir) /\ EndsWith(path.name, TifSuffix)}
    IN  [deleted |-> fpaths \ locked,
         failed  |-> fpaths \cap locked,
         report  |-> [dry_run |-> dry_run,
                      matched_files |-> Cardinality(fpaths),
                      deleted_files |-> IF dry_run THEN 0 ELSE Cardinality(fpaths \ locked),
                      total_size |-> SizeOf(files, fpaths)]]

\* purge_cache: the files that glob '**/*.tif' finds under get_cache_dir();
\* unless it is a dry run each is unlinked, a raising unlink being reported
\* and passed over; the report counts the matches and the unlinks that succeeded
purge_cache(files, dry_run, locked) ==
    LET fpaths == {path \in DOMAIN files :
                      UnderCacheRoot(path.dir) /\ EndsWith(path.name, TifSuffix)}
        deleted == IF dry_run THEN {} ELSE fpaths \ locked
        failed == IF dry_run THEN {} ELSE fpaths \cap locked
    IN  [deleted |-> deleted,
         failed  |-> failed,
         report  |-> [dry_run |-> dry_run,
                      matched_files |-> Cardinality(fpaths),
                      deleted_files |-> IF ~dry_run THEN Cardinality(deleted) ELSE 0,
                      total_size |-> SizeOf(files, fpaths)]]

PurgeCache ==
    /\ pc = "idle"
    /\ \E dry_run \in BOOLEAN :
          LET purged == purge_cache(fs, dry_run, undeletable)
          IN  /\ fs' = Unlink(fs, purged.deleted)
              /\ workers' = FdsAfterUnlink(workers, purged.deleted)
              /\ fs_ops' = {[op |-> "unlink", path |-> path] : path \in purged.deleted}
              /\ stdout' = purged.failed
              /\ outcome' = [kind |-> "purged", rows |-> <<>>, unknown_isos |-> {},
                             paths |-> <<>>, report |-> purged.report]
    /\ pc' = "called"
    /\ UNCHANGED <<manifest_vars, req, directory, n_jobs, undeletable, args, jobs, res, refresh_vars, raster_vars, query_vars>>

\* what may lie in a directory: a finished raster, the temporary file of an
\* interrupted download of it, and a file of another kind
README == <<"R", "E", "A", "D", "M", "E">>
FileNames ==
    {_build_local_fname(ppp, NZL, 2020),
     _build_local_fname(ppp, NZL, 2020) \o DownloadSuffix,
     README}
CachePaths == {[dir |-> dir, name |-> name] : dir \in Dirs, name \in FileNames}

\* the directories as earlier runs and the user left them, at most one file
\* being one that cannot be unlinked; no download is running
InitCache ==
    /\ catalog \in FetchCatalogs
    /\ mdf_cache = load_global_manifest(catalog)
    /\ pc = "idle"
    /\ req = NoRequest
    /\ outcome = NoOutcome
    /\ directory = "cache"
    /\ n_jobs = get_max_concurrency("unset", NumWorkers + 1)
    /\ \E paths \in SUBSET CachePaths :
          /\ fs = [path \in paths |-> <<path.name>>]
          /\ undeletable \in {{}} \cup {{path} : path \in paths}
    /\ args = {}
    /\ jobs = {}
    /\ res = {}
    /\ workers = [w \in 1..NumWorkers |-> IdleWorker]
    /\ fs_ops = {}
    /\ stdout = {}
    /\ assets = NoAssets
    /\ refresh = NoRefresh
    /\ raster_args = NoRasterArgs
    /\ query = NoQuery

NextCache == Download \/ PurgeCache \/ CallReturns

SpecCache == InitCache /\ [][NextCache]_vars

(***************************************************************************)
(* build_global_manifest (manifest.py, lines 95-161), step by step.        *)
(***************************************************************************)
Md5Path == "/assets/wpgpDatasets.md5"
CsvPath == "/assets/wpgpDatasets.csv"

\* _get_file_md5_hash: a digest of the raw CSV, taken to be free of collisions
Md5(raw_csv) == [md5 |-> raw_csv]

\* a test that asks for the remote hash of a forced refresh too
ChecksHash_overwrite_ignored(files, overwrite) ==
    /\ files.manifest # Missing
    /\ files.raw_hash # Missing

\* lines 116-119: whether the remote hash is asked for at all
ChecksHash(files, overwrite) ==
    /\ files.manifest # Missing /\ ~overwrite
    /\ files.raw_hash # Missing

\* lines 116-121: the local copy is kept as it is
IsUpToDate(files, overwrite, remote_hash) ==
    /\ ChecksHash(files, overwrite)
    /\ files.raw_hash = remote_hash

\* the call up to the decision of lines 116-121, the server answering
BuildDecides(files, overwrite, raw_csv) ==
    LET checks == ChecksHash(files, overwrite)
        remote_hash == Md5(raw_csv)
    IN  [NoRefresh EXCEPT
           !.overwrite = overwrite,
           !.local_hash = IF checks THEN files.raw_hash ELSE Missing,
           !.remote_hash = IF checks THEN remote_hash ELSE Missing,
           !.transfers = IF checks THEN {Md5Path} ELSE {},
           !.pc = IF IsUpToDate(files, overwrite, remote_hash)
                  THEN "up_to_date" ELSE "download"]

CallBuild ==
    /\ refresh.pc = "idle"
    /\ \E overwrite \in BOOLEAN : refresh' = BuildDecides(assets, overwrite, catalog)
    /\ UNCHANGED <<manifest_vars, call_vars, fetch_vars, assets, raster_vars, query_vars>>

\* the call up to the decision, the server not being reached when the remote
\* hash is asked for: _worldpop_ftp_download raises ValueError
CallBuildOffline ==
    /\ refresh.pc = "idle"
    /\ \E overwrite \in BOOLEAN :
          /\ ChecksHash(assets, overwrite)
          /\ refresh' = [NoRefresh EXCEPT !.overwrite = overwrite,
                                          !.local_hash = assets.raw_hash,
                                          !.pc = "raised", !.error = "ValueError"]
    /\ UNCHANGED <<manifest_vars, call_vars, fetch_vars, assets, raster_vars, query_vars>>

\* line 127: the raw CSV is downloaded into the temporary file
TransferCsv ==
    /\ refresh.pc = "download"
    /\ refresh' = [refresh EXCEPT !.pc = "hash", !.tmp_csv = catalog,
                                  !.transfers = @ \cup {CsvPath}]
    /\ UNCHANGED <<manifest_vars, call_vars, fetch_vars, assets, raster_vars, query_vars>>

\* line 127, the server not being reached
TransferFails ==
    /\ refresh.pc = "download"
    /\ refresh' = [refresh EXCEPT !.pc = "raised", !.error = "ValueError"]
    /\ UNCHANGED <<manifest_vars, call_vars, fetch_vars, assets, raster_vars, query_vars>>

\* line 128: _update_local_manifest_hash
UpdateHash ==
    /\ refresh.pc = "hash"
    /\ assets' = [assets EXCEPT !.raw_hash = Md5(refresh.tmp_csv)]
    /\ refresh' = [refresh EXCEPT !.pc = "clean"]
    /\ UNCHANGED <<manifest_vars, call_vars, fetch_vars, raster_vars, query_vars>>

\* lines 129-159: the CSV is read and cleaned, and the table is stored
StoreManifest ==
    /\ refresh.pc = "clean"
    /\ assets' = [assets EXCEPT !.manifest = build_global_manifest(refresh.tmp_csv)]
    /\ refresh' = [refresh EXCEPT !.pc = "built"]
    /\ UNCHANGED <<manifest_vars, call_vars, fetch_vars, raster_vars, query_vars>>

\* lines 125-159 raise after the download (the CSV does not parse, the table
\* cannot be written), or the process is interrupted there
BuildInterrupted ==
    /\ refresh.pc \in {"hash", "clean"}
    /\ refresh' = [refresh EXCEPT !.pc = "raised", !.error = "Exception"]
    /\ UNCHANGED <<manifest_vars, call_vars, fetch_vars, assets, raster_vars, query_vars>>

\* the call returns (None, or the table) or raises
BuildReturns ==
    /\ refresh.pc \in {"up_to_date", "built", "raised"}
    /\ refresh' = NoRefresh
    /\ UNCHANGED <<manifest_vars, call_vars, fetch_vars, assets, raster_vars, query_vars>>

RefreshCatalogs == {CatFull, CatPartial, CatSameKey}

\* WorldPop publishes another catalog, with its hash
ServerPublishes ==
    /\ \E raw_csv \in RefreshCatalogs \ {catalog} : catalog' = raw_csv
    /\ UNCHANGED <<mdf_cache, call_vars, fetch_vars, refresh_vars, raster_vars, query_vars>>

\* the local files as earlier calls and the user left them
InitManifest ==
    /\ catalog \in RefreshCatalogs
    /\ mdf_cache = NotLoaded
    /\ pc = "idle"
    /\ req = NoRequest
    /\ outcome = NoOutcome
    /\ directory = "cache"
    /\ n_jobs = get_max_concurrency("unset", NumWorkers + 1)
    /\ undeletable = {}
    /\ fs = <<>>
    /\ args = {}
    /\ jobs = {}
    /\ res = {}
    /\ workers = [w \in 1..NumWorkers |-> IdleWorker]
    /\ fs_ops = {}
    /\ stdout = {}
    /\ \E built \in RefreshCatalogs, has_manifest \in BOOLEAN, has_hash \in BOOLEAN :
          assets = [manifest |-> IF has_manifest THEN build_global_manifest(built)
                                 ELSE Missing,
                    raw_hash |-> IF has_hash THEN Md5(built) ELSE Missing]
    /\ refresh = NoRefresh
    /\ raster_args = NoRasterArgs
    /\ query = NoQuery

NextManifest ==
    \/ CallBuild
    \/ CallBuildOffline
    \/ TransferCsv
    \/ TransferFails
    \/ UpdateHash
    \/ StoreManifest
    \/ BuildInterrupted
    \/ BuildReturns
    \/ ServerPublishes

SpecManifest == InitManifest /\ [][NextManifest]_vars

(***************************************************************************)
(* load_global_manifest and the query helpers with their lru_caches        *)
(* (manifest.py lines 36-92 and 237-303), on top of the refresh.           *)
(***************************************************************************)
\* a cache that stores nothing
CacheHit_never(cache) == FALSE

\* line 36, @lru_cache(): a value was stored by a call that returned
CacheHit(cache) == ~cache.raised

\* what a helper computes from the loaded table (the sorted list of the set)
HelperValue(h, mdf) ==
    CASE h = "get_all_isos" -> get_all_isos(mdf)
      [] h = "get_static_product_names" -> get_static_product_names(mdf)
      [] h = "get_annual_product_names" -> get_annual_product_names(mdf)
      [] h = "get_all_annual_product_years" -> get_all_annual_product_years(mdf)
      [] h = "get_all_dataset_names" -> get_all_dataset_names(mdf)

\* what a call returns: the value, and the files it fetched from the server
Value(fn, value, transfers) ==
    [kind |-> "value", rows |-> <<>>, unknown_isos |-> {}, paths |-> <<>>,
     fn |-> fn, value |-> value, transfers |-> transfers]

ValueOf(fn, mdf) == IF fn \in Helpers THEN HelperValue(fn, mdf) ELSE mdf

Stored(cache, fn, mdf) ==
    IF fn \in Helpers THEN [cache EXCEPT ![fn] = [value |-> HelperValue(fn, mdf)]]
    ELSE cache

\* a helper whose value is memoized returns it
HelperHit ==
    /\ pc = "idle" /\ refresh.pc = "idle"
    /\ \E fn \in Helpers :
          /\ query.cache[fn] # Missing
          /\ outcome' = Value(fn, query.cache[fn].value, {})
    /\ pc' = "called"
    /\ UNCHANGED <<manifest_vars, req, fetch_vars, refresh_vars, raster_vars, query_vars>>

\* load_global_manifest, or a helper that calls it, with the table memoized
LoadHit ==
    /\ pc = "idle" /\ refresh.pc = "idle"
    /\ CacheHit(mdf_cache)
    /\ \E fn \in Helpers \cup {"load_global_manifest"} :
          /\ fn \in Helpers => query.cache[fn] = Missing
          /\ outcome' = Value(fn, ValueOf(fn, mdf_cache.mdf), {})
          /\ query' = [query EXCEPT !.cache = Stored(@, fn, mdf_cache.mdf)]
    /\ pc' = "called"
    /\ UNCHANGED <<manifest_vars, req, fetch_vars, refresh_vars, raster_vars>>

\* line 77: nothing is memoized, and load_global_manifest calls
\* build_global_manifest(), which reaches the server or does not
LoadMiss ==
    /\ pc = "idle" /\ refresh.pc = "idle"
    /\ ~CacheHit(mdf_cache)
    /\ \E fn \in Helpers \cup {"load_global_manifest"} :
          /\ fn \in Helpers => query.cache[fn] = Missing
          /\ query' = [query EXCEPT !.fn = fn, !.before = assets]
    /\ \/ refresh' = BuildDecides(assets, FALSE, catalog)
       \/ /\ ChecksHash(assets, FALSE)
          /\ refresh' = [NoRefresh EXCEPT !.local_hash = assets.raw_hash,
                                          !.pc = "raised", !.error = "ValueError"]
    /\ pc' = "loading"
    /\ UNCHANGED <<manifest_vars, req, outcome, fetch_vars, assets, raster_vars>>

\* lines 78-92: the Feather file is read and checked; the table that passes
\* is returned and memoized, the helper's value with it
LoadReads ==
    /\ pc = "loading"
    /\ refresh.pc \in {"up_to_date", "built"}
    /\ LET got == CheckManifest(assets.manifest)
       IN  /\ mdf_cache' = IF got.raised THEN mdf_cache ELSE got
           /\ outcome' = IF got.raised THEN Raised("IntegrityError", {})
                         ELSE Value(query.fn, ValueOf(query.fn, got.mdf), refresh.transfers)
           /\ query' = IF got.raised THEN [query EXCEPT !.fn = "none", !.before = NoAssets]
                       ELSE [query EXCEPT !.fn = "none", !.before = NoAssets,
                                          !.cache = Stored(@, query.fn, got.mdf)]
    /\ refresh' = NoRefresh
    /\ pc' = "called"
    /\ UNCHANGED <<catalog, req, fetch_vars, assets, raster_vars>>

\* build_global_manifest raised, and so does the load
LoadRaises ==
    /\ pc = "loading"
    /\ refresh.pc = "raised"
    /\ outcome' = Raised(refresh.error, {})
    /\ query' = [query EXCEPT !.fn = "none", !.before = NoAssets]
    /\ refresh' = NoRefresh
    /\ pc' = "called"
    /\ UNCHANGED <<manifest_vars, req, fetch_vars, assets, raster_vars>>

\* build_global_manifest called by the user, between two queries
CallBuildDirect == pc = "idle" /\ (CallBuild \/ CallBuildOffline)
BuildReturnsDirect == pc = "idle" /\ BuildReturns

LoadCatalogs == {CatFull, CatPartial, CatNotTif}

\* WorldPop publishes another catalog, which may be one the load rejects
CatalogChanges ==
    /\ \E raw_csv \in LoadCatalogs \ {catalog} : catalog' = raw_csv
    /\ UNCHANGED <<mdf_cache, call_vars, fetch_vars, refresh_vars, raster_vars, query_vars>>

\* a new process: nothing is memoized; the local files are missing or are
\* those of a catalog that earlier loads accepted
InitLoad ==
    /\ catalog \in LoadCatalogs
    /\ mdf_cache = NotLoaded
    /\ pc = "idle"
    /\ req = NoRequest
    /\ outcome = NoOutcome
    /\ directory = "cache"
    /\ n_jobs = get_max_concurrency("unset", NumWorkers + 1)
    /\ undeletable = {}
    /\ fs = <<>>
    /\ args = {}
    /\ jobs = {}
    /\ res = {}
    /\ workers = [w \in 1..NumWorkers |-> IdleWorker]
    /\ fs_ops = {}
    /\ stdout = {}
    /\ assets \in {NoAssets, [manifest |-> build_global_manifest(CatFull),
                              raw_hash |-> Md5(CatFull)]}
    /\ refresh = NoRefresh
    /\ raster_args = NoRasterArgs
    /\ query = NoQuery

NextLoad ==
    \/ HelperHit
    \/ LoadHit
    \/ LoadMiss
    \/ LoadReads
    \/ LoadRaises
    \/ CallBuildDirect
    \/ BuildReturnsDirect
    \/ TransferCsv
    \/ TransferFails
    \/ UpdateHash
    \/ StoreManifest
    \/ BuildInterrupted
    \/ CatalogChanges
    \/ CallReturns

SpecLoad == InitLoad /\ [][NextLoad]_vars

(***************************************************************************)
(* The name functions (manifest.py: extract_year, _strip_year) called on   *)
(* names put together from year tokens, plausible or not, and other parts. *)
(***************************************************************************)
NameParts ==
    {<<"_", "2", "0", "2", "0">>, <<"_", "2", "0", "2", "1">>, <<"_", "1", "8", "8", "9">>,
     <<"_", "2", "0", "9", "9">>, <<"_", "c">>, <<"2", "1">>}

RECURSIVE Flatten(_)
Flatten(parts) == IF parts = <<>> THEN <<>> ELSE Head(parts) \o Flatten(Tail(parts))

DatasetNames == {<<"p">> \o Flatten(parts) : parts \in SeqsUpTo(NameParts, MaxNameParts)}

CallExtractYear ==
    /\ pc = "idle"
    /\ \E dataset_name \in DatasetNames :
          LET got == extract_year(dataset_name)
          IN  /\ req' = [NoRequest EXCEPT !.product_name = dataset_name]
              /\ outcome' = IF got.raised THEN Raised("ValueError", {})
                            ELSE [kind |-> "year", rows |-> <<>>, unknown_isos |-> {},
                                  paths |-> <<>>, year |-> got.year]
    /\ pc' = "called"
    /\ UNCHANGED <<manifest_vars, fetch_vars, refresh_vars, raster_vars, query_vars>>

\* _strip_year: the ValueError of extract_year passes through (line 441)
CallStripYear ==
    /\ pc = "idle"
    /\ \E dataset_name \in DatasetNames :
          /\ req' = [NoRequest EXCEPT !.product_name = dataset_name]
          /\ outcome' = IF extract_year(dataset_name).raised THEN Raised("ValueError", {})
                        ELSE [kind |-> "stripped", rows |-> <<>>, unknown_isos |-> {},
                              paths |-> <<>>, name |-> _strip_year(dataset_name)]
    /\ pc' = "called"
    /\ UNCHANGED <<manifest_vars, fetch_vars, refresh_vars, raster_vars, query_vars>>

\* build_global_manifest, lines 129-156, on a raw table of one row
CallBuildManifest ==
    /\ pc = "idle"
    /\ \E dataset_name \in DatasetNames :
          /\ req' = [NoRequest EXCEPT !.product_name = dataset_name]
          /\ outcome' = [kind |-> "built", unknown_isos |-> {}, paths |-> <<>>,
                         rows |-> build_global_manifest(<<Row(dataset_name, NZL)>>)]
    /\ pc' = "called"
    /\ UNCHANGED <<manifest_vars, fetch_vars, refresh_vars, raster_vars, query_vars>>

NextNames == CallExtractYear \/ CallStripYear \/ CallBuildManifest \/ CallReturns

SpecNames == InitResolver /\ [][NextNames]_vars

(***************************************************************************)
(* Reading and merging rasters (raster.py, _merge_rasters).                *)
(***************************************************************************)
MaxGroupLen == 3    \* longest list of raster paths given to one merge

NaN == "nan"            \* the float NaN, the no-data value of many float rasters
Absent == "absent"      \* the attribute is not in da.attrs
None == "None"          \* Python's None
FillValues == {"-99999", "255", NaN}
ScaleFactors == {"1.0", "0.01"}

\* what rioxarray.open_rasterio does with the file at one path: it raises
\* `error`, or returns a DataArray whose attrs has the two attributes or not
UnreadableRaster == [error |-> "RasterioIOError", _FillValue |-> Absent, scale_factor |-> Absent]
RasterFiles ==
    {[error |-> "none", _FillValue |-> f, scale_factor |-> s] :
        f \in FillValues \cup {Absent}, s \in ScaleFactors \cup {Absent}}
    \cup {UnreadableRaster}

\* Python's != on two attribute values: NaN is unequal to every float, itself
\* included
NotEqual(a, b) == a # b \/ a = NaN \/ b = NaN

\* lines 326-331: the call of open_rasterio raises what the file makes it
\* raise, and TypeError when other_read_kwargs is None (** of a non-mapping)
OpenRasterio(file, other_read_kwargs) ==
    IF other_read_kwargs = None THEN "TypeError" ELSE file.error

\* lines 332-337
ReadError(i, cause) ==
    [kind |-> "ValueError", rows |-> <<>>, unknown_isos |-> {}, paths |-> <<>>,
     message |-> [text |-> "Failed to read raster file", path |-> i,
                  cause |-> cause, cache_hint |-> TRUE]]

\* lines 345-348 and 355-358
MetadataError(attribute) ==
    [kind |-> "ValueError", rows |-> <<>>, unknown_isos |-> {}, paths |-> <<>>,
     message |-> [text |-> "Country rasters do not use the same", attribute |-> attribute]]

\* lines 341-344 and 351-354: the attribute is there, a value was seen before
\* and the two are unequal
Mismatch(seen, value) ==
    value # Absent /\ seen # None /\ NotEqual(value, seen)

\* lines 340-342 and 350-352: the first value seen is kept
Seen(seen, value) == IF value # Absent /\ seen = None THEN value ELSE seen

\* lines 324-362: the loop from raster i on, then merge_arrays on the rasters
\* read (clipping_gdf is None)
RECURSIVE ReadLoop(_, _, _, _, _)
ReadLoop(raster_fpaths, other_read_kwargs, i, fill_val, scale_factor) ==
    IF i > Len(raster_fpaths)
    THEN [kind |-> "merged", rows |-> <<>>, unknown_isos |-> {}, paths |-> <<>>,
          rasters |-> raster_fpaths]
    ELSE LET file == raster_fpaths[i]
             e == OpenRasterio(file, other_read_kwargs)
         IN  IF e # "none" THEN ReadError(i, e)
             ELSE IF Mismatch(fill_val, file._FillValue)
                  THEN MetadataError("_FillValue")
             ELSE IF Mismatch(scale_factor, file.scale_factor)
                  THEN MetadataError("scale_factor")
             ELSE ReadLoop(raster_fpaths, other_read_kwargs, i + 1,
                           Seen(fill_val, file._FillValue),
                           Seen(scale_factor, file.scale_factor))

_merge_rasters(raster_fpaths, other_read_kwargs) ==
    ReadLoop(raster_fpaths, other_read_kwargs, 1, None, None)

RasterGroups == SeqsUpTo(RasterFiles, MaxGroupLen) \ {<<>>}

\* a call of _merge_rasters on the files of one group
CallMergeRasters ==
    /\ pc = "idle"
    /\ \E raster_fpaths \in RasterGroups, other_read_kwargs \in {None, "{}"} :
          /\ raster_args' = [fn |-> "_merge_rasters", raster_fpaths |-> raster_fpaths,
                             other_read_kwargs |-> other_read_kwargs]
          /\ outcome' = _merge_rasters(raster_fpaths, other_read_kwargs)
    /\ pc' = "called"
    /\ UNCHANGED <<manifest_vars, req, fetch_vars, refresh_vars, query_vars>>

NextMerge == CallMergeRasters \/ CallReturns

SpecMerge == InitResolver /\ [][NextMerge]_vars

(***************************************************************************)
(* Bounding boxes (raster.py _validate_bbox, utils.py validate_bbox).      *)
(***************************************************************************)
\* the items of a bounding box: ints, the float NaN, and a string
Int_(v) == [type |-> "int", nan |-> FALSE, v |-> v]
NaNItem == [type |-> "float", nan |-> TRUE, v |-> 0]
StrItem == [type |-> "str", nan |-> FALSE, v |-> 0]
Degrees == {-181, -180, -91, -90, 0, 90, 91, 180, 181}
BboxItems == {Int_(v) : v \in Degrees} \cup {NaNItem, StrItem}

\* Python's >= and <= on two numbers: every comparison with NaN is False
Ge(a, b) == ~a.nan /\ ~b.nan /\ a.v >= b.v
Le(a, b) == ~a.nan /\ ~b.nan /\ a.v <= b.v

IsNumeric(x) == x.type \in {"int", "float"}

\* the bounding boxes a caller passes: lists and tuples of four items, of
\* three and of five, and an object that is neither a list nor a tuple
BboxArgs ==
    {[type |-> t, items |-> <<a, b, c, d>>] :
        t \in {"tuple"}, a \in BboxItems, b \in BboxItems, c \in BboxItems, d \in BboxItems}
    \cup {[type |-> t, items |-> <<Int_(0), Int_(0), Int_(90), Int_(90)>>] :
            t \in {"list", "ndarray"}}
    \cup {[type |-> t, items |-> <<Int_(0), Int_(0), Int_(90)>>] : t \in {"list", "tuple"}}
    \cup {[type |-> t, items |-> <<Int_(0), Int_(0), Int_(90), Int_(90), Int_(91)>>] :
            t \in {"list", "tuple"}}
    \cup {[type |-> "tuple", items |-> <<>>]}

\* raster.py lines 431-450 with the latitudes held to the range of the
\* longitudes
_validate_bbox_lat_as_lon(bbox) ==
    IF bbox.type \notin {"list", "tuple"} THEN "Bounding box must be a list or tuple."
    ELSE IF Len(bbox.items) # 4 \/ \E i \in 1..Len(bbox.items) : ~IsNumeric(bbox.items[i])
    THEN "Bounding box must contain exactly four numeric values"
    ELSE LET min_lon == bbox.items[1]
             min_lat == bbox.items[2]
             max_lon == bbox.items[3]
             max_lat == bbox.items[4]
         IN  IF Ge(min_lon, max_lon) THEN "min_lon must be less than max_lon."
             ELSE IF Ge(min_lat, max_lat) THEN "min_lat must be less than max_lat."
             ELSE IF ~(/\ Le(Int_(-180), min_lon) /\ Le(min_lon, Int_(180))
                       /\ Le(Int_(-180), max_lon) /\ Le(max_lon, Int_(180)))
             THEN "Longitude must be between -180 and 180 degrees."
             ELSE IF ~(/\ Le(Int_(-180), min_lat) /\ Le(min_lat, Int_(180))
                       /\ Le(Int_(-180), max_lat) /\ Le(max_lat, Int_(180)))
             THEN "Latitude must be between -90 and 90 degrees."
             ELSE "None"

\* raster.py lines 431-450: the message of the ValueError raised, or "None"
\* when the function returns
_validate_bbox(bbox) ==
    IF bbox.type \notin {"list", "tuple"} THEN "Bounding box must be a list or tuple."
    ELSE IF Len(bbox.items) # 4 \/ \E i \in 1..Len(bbox.items) : ~IsNumeric(bbox.items[i])
    THEN "Bounding box must contain exactly four numeric values"
    ELSE LET min_lon == bbox.items[1]
             min_lat == bbox.items[2]
             max_lon == bbox.items[3]
             max_lat == bbox.items[4]
         IN  IF Ge(min_lon, max_lon) THEN "min_lon must be less than max_lon."
             ELSE IF Ge(min_lat, max_lat) THEN "min_lat must be less than max_lat."
             ELSE IF ~(/\ Le(Int_(-180), min_lon) /\ Le(min_lon, Int_(180))
                       /\ Le(Int_(-180), max_lon) /\ Le(max_lon, Int_(180)))
             THEN "Longitude must be between -180 and 180 degrees."
             ELSE IF ~(/\ Le(Int_(-90), min_lat) /\ Le(min_lat, Int_(90))
                       /\ Le(Int_(-90), max_lat) /\ Le(max_lat, Int_(90)))
             THEN "Latitude must be between -90 and 90 degrees."
             ELSE "None"

\* utils.py lines 10-29: the message of the ValueError raised, or "None" when
\* the function returns
validate_bbox(bbox) ==
    IF bbox.type \notin {"list", "tuple"} THEN "Bounding box must be a list or tuple."
    ELSE IF Len(bbox.items) # 4 \/ \E i \in 1..Len(bbox.items) : ~IsNumeric(bbox.items[i])
    THEN "Bounding box must contain exactly four numeric values"
    ELSE LET min_lon == bbox.items[1]
             min_lat == bbox.items[2]
             max_lon == bbox.items[3]
             max_lat == bbox.items[4]
         IN  IF Ge(min_lon, max_lon) THEN "min_lon must be less than max_lon."
             ELSE IF Ge(min_lat, max_lat) THEN "min_lat must be less than max_lat."
             ELSE IF ~(/\ Le(Int_(-180), min_lon) /\ Le(min_lon, Int_(180))
                       /\ Le(Int_(-180), max_lon) /\ Le(max_lon, Int_(180)))
             THEN "Longitude must be between -180 and 180 degrees."
             ELSE IF ~(/\ Le(Int_(-90), min_lat) /\ Le(min_lat, Int_(90))
                       /\ Le(Int_(-90), max_lat) /\ Le(max_lat, Int_(90)))
             THEN "Latitude must be between -90 and 90 degrees."
             ELSE "None"

\* a bounding box given to both validators
CallValidateBbox ==
    /\ pc = "idle"
    /\ \E bbox \in BboxArgs :
          /\ raster_args' = [fn |-> "validate_bbox", bbox |-> bbox]
          /\ outcome' = [kind |-> "validated", rows |-> <<>>, unknown_isos |-> {},
                         paths |-> <<>>,
                         raster |-> _validate_bbox(bbox), utils |-> validate_bbox(bbox)]
    /\ pc' = "called"
    /\ UNCHANGED <<manifest_vars, req, fetch_vars, refresh_vars, query_vars>>

NextBbox == CallValidateBbox \/ CallReturns

SpecBbox == InitResolver /\ [][NextBbox]_vars

(***************************************************************************)
(* wp_raster (raster.py).                                                  *)
(***************************************************************************)
\* download.py lines 66-72: the parameters of WorldPopDownloader.download
DownloadParameters == {"self", "product_name", "iso3_codes", "years", "skip_download_if_exists"}
\* raster.py lines 150-156: the keyword wp_raster passes besides its four
\* positional arguments
DownloadKeywords == {"dry_run"}

\* a valid bounding box, and a box with a latitude out of range
BboxNZL == [type |-> "tuple", items |-> <<Int_(0), Int_(-90), Int_(180), Int_(0)>>]
BboxBad == [type |-> "tuple", items |-> <<Int_(0), Int_(-91), Int_(180), Int_(0)>>]
AsBbox(bbox) == [kind |-> "bbox", str |-> <<>>, list |-> <<>>, bbox |-> bbox]

\* lines 404-419: a GeoDataFrame for a valid bounding box, ValueError for an
\* invalid one, IndexError for an empty list (aoi[0]), and the ISO code or
\* codes as they are
_format_aoi(aoi) ==
    IF aoi.kind = "list" /\ aoi.list = <<>>
    THEN [raised |-> "IndexError", message |-> "list index out of range", aoi |-> aoi]
    ELSE IF aoi.kind = "bbox" /\ aoi.bbox.items[1].type # "str"
    THEN IF _validate_bbox(aoi.bbox) # "None"
         THEN [raised |-> "ValueError", message |-> _validate_bbox(aoi.bbox), aoi |-> aoi]
         ELSE [raised |-> "none", message |-> "",
               aoi |-> [kind |-> "GeoDataFrame", bbox |-> aoi.bbox]]
    ELSE [raised |-> "none", message |-> "", aoi |-> aoi]

\* an exception of the given class and message
Error(class, text) ==
    [kind |-> class, rows |-> <<>>, unknown_isos |-> {}, paths |-> <<>>,
     message |-> [text |-> text]]

\* the DataArray or the error that open_rasterio gives for a local path: a
\* file that is missing or empty cannot be read
RasterAt(files, path) ==
    IF IsFile(files, path) /\ files[path] # Hole
    THEN [error |-> "none", _FillValue |-> "-99999", scale_factor |-> Absent]
    ELSE UnreadableRaster

\* lines 167-170: the years extract_year reads from the names of the paths
YearsOf(paths) == {extract_year(paths[i].name) : i \in 1..Len(paths)}
RECURSIVE PathsOfYear(_, _)
PathsOfYear(paths, year) ==
    IF paths = <<>> THEN <<>>
    ELSE IF extract_year(Head(paths).name).year = year
         THEN <<Head(paths)>> \o PathsOfYear(Tail(paths), year)
         ELSE PathsOfYear(Tail(paths), year)

\* lines 167-182: the keys of paths_by_year in the order the loop inserts them,
\* which is the order the merged year groups are appended and stacked in
RECURSIVE FirstOccurrences(_)
FirstOccurrences(paths) ==
    IF paths = <<>> THEN <<>>
    ELSE LET earlier == FirstOccurrences(SubSeq(paths, 1, Len(paths) - 1))
             year == extract_year(paths[Len(paths)].name).year
         IN  IF \E i \in 1..Len(earlier) : earlier[i] = year THEN earlier
             ELSE Append(earlier, year)

\* lines 158-190, given the paths download() returned
AfterDownload(files, all_raster_paths, years, download_dry_run) ==
    LET Group(paths) == _merge_rasters([i \in 1..Len(paths) |-> RasterAt(files, paths[i])], "{}")
        unnamed == {y \in YearsOf(all_raster_paths) : y.raised}
        failed == {y \in YearsOf(all_raster_paths) :
                      ~y.raised /\ Group(PathsOfYear(all_raster_paths, y.year)).kind # "merged"}
    IN  IF download_dry_run
        THEN [kind |-> "returned", rows |-> <<>>, unknown_isos |-> {}, paths |-> <<>>,
              value |-> None]
        ELSE IF years.kind = "none"
        THEN Group(all_raster_paths)
        ELSE IF unnamed # {} THEN Error("ValueError", "No unique year in dataset name")
        ELSE IF failed # {}
        THEN Group(PathsOfYear(all_raster_paths, (CHOOSE y \in failed : TRUE).year))
        ELSE [kind |-> "stacked", rows |-> <<>>, unknown_isos |-> {}, paths |-> <<>>,
              year |-> FirstOccurrences(all_raster_paths),
              slices |-> [y \in {x.year : x \in YearsOf(all_raster_paths)} |->
                             PathsOfYear(all_raster_paths, y)]]

\* lines 129-190: _format_aoi, then download() called with a keyword it has
\* no parameter for, which raises TypeError before any line of download()
\* runs (where pathlib.Path is no context manager, line 148 has raised
\* TypeError before that); the rest follows a download() that returns
wp_raster(loaded, files, product_name, aoi, years, download_dry_run) ==
    LET formatted == _format_aoi(aoi)
        fetched == LET resolved == filter_global_manifest(loaded, product_name,
                                                          formatted.aoi, years)
                   IN  IF resolved.kind = "returned" THEN AssemblePaths(resolved)
                       ELSE resolved
    IN  IF formatted.raised # "none" THEN Error(formatted.raised, formatted.message)
        ELSE IF ~(DownloadKeywords \subseteq DownloadParameters)
        THEN Error("TypeError", "download() got an unexpected keyword argument")
        ELSE IF fetched.kind # "returned" THEN fetched
        ELSE AfterDownload(files, fetched.paths, years, download_dry_run)

\* the requests of wp_raster: the area of interest takes the place of the
\* ISO codes
WpRequests ==
    FetchRequests
    \cup {[product_name |-> ppp, iso3_codes |-> AsBbox(b), years |-> Years(<<2020>>)] :
             b \in {BboxNZL, BboxBad}}
    \cup {[product_name |-> p_c, iso3_codes |-> AsList(<<NZL, AUS>>), years |-> NoYears],
          [product_name |-> ppp, iso3_codes |-> AsList(<<NZL, AUS>>),
           years |-> Years(<<2020, 2021>>)],
          [product_name |-> ppp, iso3_codes |-> AsList(<<NZL, AUS>>),
           years |-> Years(<<2021, 2020>>)]}

\* lines 148-156: the directory the rasters go to, a temporary one when the
\* downloads are not cached
CallWpRaster ==
    /\ pc = "idle"
    /\ \E r \in WpRequests, cache_downloads \in BOOLEAN, download_dry_run \in BOOLEAN :
          /\ req' = r
          /\ raster_args' = [fn |-> "wp_raster", cache_downloads |-> cache_downloads,
                             skip_download_if_exists |-> cache_downloads,
                             d |-> IF cache_downloads THEN "cache" ELSE "tmp",
                             download_dry_run |-> download_dry_run]
          /\ outcome' = wp_raster(Memoized(mdf_cache, catalog), fs, r.product_name,
                                  r.iso3_codes, r.years, download_dry_run)
    /\ pc' = "called"
    /\ fs_ops' = {}
    /\ UNCHANGED <<manifest_vars, directory, n_jobs, undeletable, fs, args, jobs, res,
                   workers, stdout, refresh_vars, query_vars>>

\* the rasters of one product and year for two countries
RasterNames ==
    {_build_local_fname(ppp, iso, year) : iso \in {NZL, AUS}, year \in {2020}}
RasterPaths == {[dir |-> "cache", name |-> name] : name \in RasterNames}

\* the cache as earlier runs left it: each raster is missing, complete, or
\* an empty file
InitRaster ==
    /\ catalog \in {CatFull, CatPartial, CatNotTif}
    /\ mdf_cache = NotLoaded
    /\ pc = "idle"
    /\ req = NoRequest
    /\ outcome = NoOutcome
    /\ directory = "cache"
    /\ n_jobs = get_max_concurrency("unset", NumWorkers + 1)
    /\ undeletable = {}
    /\ \E paths \in SUBSET RasterPaths, empty \in SUBSET RasterPaths :
          /\ empty \subseteq paths
          /\ fs = [path \in paths |-> IF path \in empty THEN Hole ELSE <<path.name>>]
    /\ args = {}
    /\ jobs = {}
    /\ res = {}
    /\ workers = [w \in 1..NumWorkers |-> IdleWorker]
    /\ fs_ops = {}
    /\ stdout = {}
    /\ assets = NoAssets
    /\ refresh = NoRefresh
    /\ raster_args = NoRasterArgs
    /\ query = NoQuery

NextRaster == CallWpRaster \/ CallReturns

SpecRaster == InitRaster /\ [][NextRaster]_vars

(***************************************************************************)
(* What the claims speak of, stated on the call and its catalog.           *)
(***************************************************************************)
Called == pc = "called" /\ outcome.kind # "loaded"
ManifestLoaded == outcome.kind # "IntegrityError"
ManifestRows == Range(mdf_cache.mdf)

\* the requested codes, in the order given, upper-cased
RequestedCodes ==
    LET given == IF req.iso3_codes.kind = "str" THEN <<req.iso3_codes.str>>
                 ELSE req.iso3_codes.list
    IN  [i \in 1..Len(given) |-> Upper(given[i])]
YearsAbsent == req.years.kind = "none"
RequestedYears ==
    IF req.years.kind = "scalar" THEN <<req.years.scalar>> ELSE req.years.list
KnownCodes == {catalog[i].iso3 : i \in 1..Len(catalog)}
UnknownCodes == Range(RequestedCodes) \ KnownCodes

\* the positions of the tokens _YYYY of a name
YearTokens(name) ==
    {i \in 1..(Len(name) - 4) : name[i] = "_" /\ \A k \in 1..4 : IsDigit(name[i + k])}
\* exactly one token _YYYY, of a plausible year
OnePlausibleYearToken(name) ==
    /\ Cardinality(YearTokens(name)) = 1
    /\ \E i \in YearTokens(name) :
          LET y == 1000 * DigitVal(name[i + 1]) + 100 * DigitVal(name[i + 2])
                   + 10 * DigitVal(name[i + 3]) + DigitVal(name[i + 4])
          IN  FIRST_YEAR <= y /\ y <= CurrentYear

HeldAsAnnual(product) == \E r \in ManifestRows : r.product_name = product /\ r.is_annual
HeldAsStatic(product) == \E r \in ManifestRows : r.product_name = product /\ ~r.is_annual

\* the request passed every check of its arguments
RequestChecked ==
    outcome.kind \in {"returned", "IncompleteCoverage", "AssertionError"}

\* a requested combination for which the manifest has no row
SomeCombinationMissing ==
    IF YearsAbsent
    THEN \E c \in Range(RequestedCodes) :
            ~\E r \in ManifestRows :
                r.iso3 = c /\ r.product_name = req.product_name /\ r.year = NoYear
    ELSE \E c \in Range(RequestedCodes), y \in Range(RequestedYears) :
            ~\E r \in ManifestRows :
                r.iso3 = c /\ r.product_name = req.product_name /\ r.year = y

Max(a, b) == IF a >= b THEN a ELSE b

(***************************************************************************)
(* C1. Whenever filter_global_manifest returns, the result has exactly     *)
(* |countries| x max(1, |years|) entries (|countries| entries when years   *)
(* is absent or empty) and no two entries are for the same (product,       *)
(* country, year).                                                         *)
(***************************************************************************)
C1_SizeAndNoDuplicates ==
    (Called /\ outcome.kind = "returned") =>
        /\ Len(outcome.rows) = Len(RequestedCodes) * Max(1, Len(RequestedYears))
        /\ \A i, j \in 1..Len(outcome.rows) :
              (/\ outcome.rows[i].product_name = outcome.rows[j].product_name
               /\ outcome.rows[i].iso3 = outcome.rows[j].iso3
               /\ outcome.rows[i].year = outcome.rows[j].year) => i = j

(***************************************************************************)
(* C2. For a manifest that loads and a request whose countries and product *)
(* are known, filter_global_manifest raises the incomplete-coverage error  *)
(* whenever a requested (country, year) combination, or country for a      *)
(* static request, has no manifest row; it never returns then.             *)
(***************************************************************************)
C2_MissingCombinationRaises ==
    (Called /\ RequestChecked /\ SomeCombinationMissing) =>
        outcome.kind = "IncompleteCoverage"

(***************************************************************************)
(* C3. Every entry filter_global_manifest returns matches the request: its *)
(* product_name is the requested product, its iso3 is a requested          *)
(* (upper-cased) code, and its year is a requested year for an annual      *)
(* request and null for a static request.                                  *)
(***************************************************************************)
C3_EntriesMatchRequest ==
    (Called /\ outcome.kind = "returned") =>
        \A i \in 1..Len(outcome.rows) :
            /\ outcome.rows[i].product_name = req.product_name
            /\ outcome.rows[i].iso3 \in Range(RequestedCodes)
            /\ IF YearsAbsent THEN outcome.rows[i].year = NoYear
               ELSE outcome.rows[i].year \in Range(RequestedYears)

(***************************************************************************)
(* C4, as claimed. Resolving a product the manifest holds as annual with   *)
(* years=None, or one it holds as static with years given, always raises   *)
(* the category-mismatch (unknown product) error.                          *)
(***************************************************************************)
C4_MismatchAlwaysUnknownProduct ==
    (/\ Called
     /\ ManifestLoaded
     /\ \/ HeldAsAnnual(req.product_name) /\ YearsAbsent
        \/ HeldAsStatic(req.product_name) /\ ~YearsAbsent)
    => outcome.kind = "UnknownProduct"

(***************************************************************************)
(* C4, amended. Resolving a product the manifest holds only as annual with *)
(* years=None, or only as static with years given, never returns a file    *)
(* set: it raises the unknown-country error when a requested code is       *)
(* unknown (the check that runs first), the invalid-query error when the   *)
(* name carries one plausible year token, and the category-mismatch error  *)
(* in every other case.                                                    *)
(***************************************************************************)
CategoryMismatch ==
    \/ HeldAsAnnual(req.product_name) /\ ~HeldAsStatic(req.product_name) /\ YearsAbsent
    \/ HeldAsStatic(req.product_name) /\ ~HeldAsAnnual(req.product_name) /\ ~YearsAbsent

C4_MismatchNeverReturns ==
    (Called /\ ManifestLoaded /\ CategoryMismatch) =>
        outcome.kind =
            IF UnknownCodes # {} THEN "UnknownCountry"
            ELSE IF OnePlausibleYearToken(req.product_name) THEN "InvalidQuery"
            ELSE "UnknownProduct"

C4_Witness ==
    /\ Called
    /\ CategoryMismatch
    /\ YearsAbsent
    /\ req.product_name = ppp
    /\ outcome.kind = "UnknownProduct"

(***************************************************************************)
(* C5, as claimed. filter_global_manifest raises the invalid-query error   *)
(* for every product_name that contains a year token, and for no other.    *)
(***************************************************************************)
C5_AnyYearTokenInvalidQuery ==
    (Called /\ ManifestLoaded) =>
        (outcome.kind = "InvalidQuery" <=> YearTokens(req.product_name) # {})

(***************************************************************************)
(* C5, amended. Once every requested country code is known,                *)
(* filter_global_manifest raises the invalid-query error exactly for the   *)
(* product names that hold one single plausible year token _YYYY (2000 <=  *)
(* YYYY <= current year); a name with several tokens, or with an           *)
(* implausible one, passes this check.  A request with an unknown country  *)
(* code raises the unknown-country error first.                            *)
(***************************************************************************)
C5_OnePlausibleTokenInvalidQuery ==
    (Called /\ ManifestLoaded) =>
        (outcome.kind = "InvalidQuery"
            <=> (UnknownCodes = {} /\ OnePlausibleYearToken(req.product_name)))

C5_Witness ==
    /\ Called
    /\ outcome.kind = "InvalidQuery"
    /\ req.product_name = ppp_2020

\* a product name with two year tokens passes the check and is resolved
C5_WitnessTwoTokens ==
    /\ Called
    /\ outcome.kind = "returned"
    /\ req.product_name = s_2000_2020

(***************************************************************************)
(* C6, as claimed. The call resolve('NZL', 'ppp_2020', years=2020), the    *)
(* first argument being product_name and the second the country argument,  *)
(* raises the invalid-query error.                                         *)
(***************************************************************************)
SwappedCall ==
    /\ Called
    /\ ManifestLoaded
    /\ req.product_name = NZL
    /\ req.iso3_codes = [kind |-> "str", str |-> ppp_2020, list |-> <<>>]
    /\ req.years = [kind |-> "scalar", scalar |-> 2020, list |-> <<>>]

ProductFirstCall ==
    /\ Called
    /\ ManifestLoaded
    /\ req.product_name = ppp_2020
    /\ req.iso3_codes = [kind |-> "str", str |-> NZL, list |-> <<>>]
    /\ req.years = [kind |-> "scalar", scalar |-> 2020, list |-> <<>>]

C7_UnknownCountry ==
    (Called /\ ManifestLoaded) =>
        /\ outcome.kind = "UnknownCountry" <=> UnknownCodes # {}
        /\ outcome.kind = "UnknownCountry" => outcome.unknown_isos = UnknownCodes

\* a list with a known code given in lower case and an unknown one
C7_Witness ==
    /\ Called
    /\ outcome.kind = "UnknownCountry"
    /\ req.iso3_codes = [kind |-> "list", str |-> <<>>, list |-> <<nzl, ppp_2020>>]
    /\ outcome.unknown_isos = {<<"P", "P", "P", "_", "2", "0", "2", "0">>}
(***************************************************************************)
(* What the claims on the download engine speak of.                        *)
(***************************************************************************)
ValidationErrors ==
    {"UnknownCountry", "UnknownProduct", "InvalidQuery", "IncompleteCoverage"}
DownloadRejected == pc = "called" /\ outcome.kind \in ValidationErrors

IsTmpName(path) == EndsWith(path.name, DownloadSuffix)

\* the complete content of one finished transfer: every chunk, of one raster
CompleteContent(data) ==
    /\ Len(data) = ContentChunks
    /\ \E job \in DownloadArgs(mdf_cache.mdf, directory, TRUE) :
          \A i \in 1..Len(data) : data[i] = job.remote_path

Resolved ==
    filter_global_manifest(mdf_cache, req.product_name, req.iso3_codes, req.years)

\* the local paths of the request of the current download() call
RequestPaths ==
    IF Resolved.kind # "returned" THEN {}
    ELSE {job.local_path : job \in DownloadArgs(Resolved.rows, directory, TRUE)}

\* a first run has completed: every raster of the request is in place
RastersInPlace ==
    /\ RequestPaths # {}
    /\ \A path \in RequestPaths : IsFile(fs, path) /\ CompleteContent(fs[path])

(***************************************************************************)
(* C11. download() run again for a request whose rasters a first run has   *)
(* all put in place returns the list of local paths (the same list as the  *)
(* first run), requests no raster and leaves every file unchanged.         *)
(***************************************************************************)
C11_SecondRunReturnsPaths ==
    (pc = "called" /\ RastersInPlace) => outcome.kind = "returned"

NoTransferRunning == \A w \in DOMAIN workers : workers[w].pc \notin Running

C13_EveryCallEnds ==
    \A w \in 1..NumWorkers :
        (workers[w].pc \in Running) ~> (workers[w].pc \notin Running)

OtherErrors == {"KeyError", "OSError", "FileNotFoundError"}

(***************************************************************************)
(* C14, as claimed. A download that raised an error other than an HTTP     *)
(* error (a missing Content-Length header, a failed write, a failed        *)
(* rename) is not attempted again, and its attempt count is one.           *)
(***************************************************************************)
C14_OtherErrorAfterOneAttempt ==
    \A w \in 1..NumWorkers :
        workers[w].error \in OtherErrors =>
            workers[w].pc = "failed" /\ workers[w].attempts = 1

(***************************************************************************)
(* C14, amended. A download that raised an error other than an HTTP error  *)
(* is not attempted again: the error propagates at once and ends the call. *)
(* Its attempt count is one only if no attempt before failed with an HTTP  *)
(* error; after such retries it is the number of attempts made so far.     *)
(***************************************************************************)
C14_OtherErrorEndsCall ==
    \A w \in 1..NumWorkers :
        /\ workers[w].error \in OtherErrors =>
              workers[w].pc = "failed" /\ workers[w].attempts >= 1
        /\ workers[w].pc = "backoff" => workers[w].error = "HTTPError"

\* a rename that failed on the first attempt, and a missing header on a later one
C14_Witness ==
    \E v, w \in 1..NumWorkers :
        /\ workers[v].pc = "failed"
        /\ workers[v].error = "FileNotFoundError"
        /\ workers[v].attempts = 1
        /\ workers[w].pc = "failed"
        /\ workers[w].error = "KeyError"
        /\ workers[w].attempts > 1

C16_OnePathPerEntrySorted ==
    (pc = "called" /\ req # NoRequest /\ Resolved.kind = "returned") =>
        /\ outcome.kind = "returned"
        /\ outcome.paths = sorted(LocalPaths(DownloadArgs(Resolved.rows, directory, TRUE)))

InFlight == {w \in 1..NumWorkers : workers[w].pc \in Running}

IsLeftover(path) == UnderCacheRoot(path.dir) /\ IsTmpName(path)

SameFile(path) == path \in DOMAIN fs' /\ fs'[path] = fs[path]

(***************************************************************************)
(* C18, as claimed. The repair pass at the start of every fetch deletes    *)
(* every file named '*.download' anywhere under the cache root, in any     *)
(* subdirectory, and leaves every other file unchanged.                    *)
(***************************************************************************)
C18_RepairDeletesEveryLeftover ==
    [][Download =>
          /\ \A path \in DOMAIN fs : IsLeftover(path) => path \notin DOMAIN fs'
          /\ \A path \in DOMAIN fs : ~IsLeftover(path) => SameFile(path)
          /\ DOMAIN fs' \subseteq DOMAIN fs]_vars

(***************************************************************************)
(* C18, amended. The repair pass at the start of every fetch tries to      *)
(* delete every file named '*.download' anywhere under the cache root, in  *)
(* any subdirectory: each such file is gone afterwards unless its deletion *)
(* raised, which is printed and leaves the file as it was.  Every other    *)
(* file is left unchanged and no file is created.                          *)
(***************************************************************************)
C18_RepairDeletesWhatItCan ==
    [][Download =>
          /\ \A path \in DOMAIN fs :
                IsLeftover(path) => (path \notin DOMAIN fs' \/ path \in stdout')
          /\ \A path \in DOMAIN fs :
                (~IsLeftover(path) \/ path \in stdout') => SameFile(path)
          /\ DOMAIN fs' \subseteq DOMAIN fs]_vars

\* a fetch has deleted a temporary file in the subdirectory and failed to
\* delete another, a finished raster lying under the cache root
C18_Witness ==
    /\ pc = "called"
    /\ req # NoRequest
    /\ \E o \in fs_ops : o.op = "unlink" /\ o.path.dir = "cache/sub"
    /\ stdout # {}
    /\ \E path \in DOMAIN fs : UnderCacheRoot(path.dir) /\ EndsWith(path.name, TifSuffix)

Purged == pc = "called" /\ outcome.kind = "purged"

\* the files under the cache root named '*.tif'
Rasters(files) ==
    {path \in DOMAIN files : UnderCacheRoot(path.dir) /\ EndsWith(path.name, TifSuffix)}

(***************************************************************************)
(* C19, as claimed. purge_cache with dry_run=True deletes no file and      *)
(* reports the number of completed raster files that would be deleted,     *)
(* with deleted_files = 0; with dry_run=False it deletes all completed     *)
(* .tif files under the cache root and reports deleted_files <=            *)
(* matched_files; in neither mode it touches a '.download' file or a file  *)
(* that is no .tif.                                                        *)
(***************************************************************************)
C19_PurgeDeletesAllRasters ==
    [][PurgeCache =>
          /\ (outcome'.report.dry_run => fs' = fs /\ outcome'.report.deleted_files = 0)
          /\ outcome'.report.matched_files = Cardinality(Rasters(fs))
          /\ (~outcome'.report.dry_run => Rasters(fs') = {})
          /\ outcome'.report.deleted_files <= outcome'.report.matched_files
          /\ \A path \in DOMAIN fs \ Rasters(fs) : SameFile(path)
          /\ DOMAIN fs' \subseteq DOMAIN fs]_vars

(***************************************************************************)
(* C19, amended. purge_cache with dry_run=True deletes no file and reports *)
(* the number of .tif files under the cache root as matched_files, with    *)
(* deleted_files = 0; with dry_run=False it deletes each of those files    *)
(* unless its deletion raises, which is printed and leaves the file as it  *)
(* was, and reports as deleted_files the number it deleted, at most        *)
(* matched_files; in neither mode it touches a '.download' file or a file  *)
(* that is no .tif, and it creates no file.                                *)
(***************************************************************************)
C19_PurgeDeletesWhatItCan ==
    [][PurgeCache =>
          /\ (outcome'.report.dry_run =>
                fs' = fs /\ outcome'.report.deleted_files = 0 /\ stdout' = {})
          /\ outcome'.report.matched_files = Cardinality(Rasters(fs))
          /\ (~outcome'.report.dry_run =>
                /\ Rasters(fs') = Rasters(fs) \cap stdout'
                /\ outcome'.report.deleted_files =
                      Cardinality(Rasters(fs)) - Cardinality(Rasters(fs')))
          /\ outcome'.report.deleted_files <= outcome'.report.matched_files
          /\ \A path \in DOMAIN fs' : SameFile(path)
          /\ \A path \in DOMAIN fs \ Rasters(fs) : SameFile(path)
          /\ DOMAIN fs' \subseteq DOMAIN fs]_vars

\* a purge has deleted a raster and failed to delete another, a temporary
\* file and a file of another kind lying under the cache root
C19_Witness ==
    /\ Purged
    /\ ~outcome.report.dry_run
    /\ outcome.report.deleted_files = 1
    /\ outcome.report.matched_files = 2
    /\ \E path \in DOMAIN fs : UnderCacheRoot(path.dir) /\ IsTmpName(path)
    /\ \E path \in DOMAIN fs : UnderCacheRoot(path.dir) /\ path.name = README

\* a dry run has reported the rasters it found
C19_WitnessPreview ==
    /\ Purged
    /\ outcome.report.dry_run
    /\ outcome.report.matched_files = 2

\* what the claim counts as a reason to transfer, on the files and the server
\* as they are when the call is made
MustRefresh(overwrite) ==
    \/ overwrite
    \/ assets.manifest = Missing
    \/ assets.raw_hash = Missing
    \/ assets.raw_hash # Md5(catalog)

BuildCalled == refresh.pc = "idle" /\ refresh'.pc # "idle"

(***************************************************************************)
(* C20. A call of build_global_manifest that reaches the server transfers  *)
(* the catalog CSV if and only if the refresh is forced, or the cleaned    *)
(* manifest file or the local hash file is missing, or the remote hash     *)
(* differs from the locally cached hash; when the cached hash equals the   *)
(* remote hash and no force is given, only the hash file is fetched and    *)
(* the cached table and hash are left unchanged.  (A call that cannot      *)
(* fetch the remote hash raises; it transfers and changes nothing.)        *)
(***************************************************************************)
C20_TransfersIffStale ==
    /\ [][BuildCalled =>
             /\ refresh'.pc # "raised" =>
                   (refresh'.pc = "download") = MustRefresh(refresh'.overwrite)
             /\ refresh'.pc # "download" =>
                   /\ refresh'.pc \in {"up_to_date", "raised"}
                   /\ refresh'.transfers = IF refresh'.pc = "raised" THEN {} ELSE {Md5Path}
             /\ assets' = assets]_vars
    /\ [][(CsvPath \in refresh'.transfers /\ CsvPath \notin refresh.transfers) =>
             refresh.pc = "download"]_vars
    /\ [][(refresh.pc = "download" /\ refresh'.pc # "download") =>
             \/ CsvPath \in refresh'.transfers
             \/ refresh'.pc = "raised"]_vars
    /\ [][(refresh.pc = "up_to_date" \/ refresh'.pc = "up_to_date") =>
             assets' = assets /\ CsvPath \notin refresh'.transfers]_vars

\* a call found the cached hash equal to the remote hash and returned at once
C20_Witness ==
    /\ refresh.pc = "up_to_date"
    /\ refresh.transfers = {Md5Path}
    /\ assets.raw_hash = Md5(catalog)

\* a call found the remote hash different and has transferred the CSV
C20_WitnessStale ==
    /\ refresh.pc = "built"
    /\ ~refresh.overwrite
    /\ refresh.transfers = {Md5Path, CsvPath}

\* the stored hash is the hash of the raw catalog the stored table was built from
TableMatchesHash ==
    (assets.manifest # Missing /\ assets.raw_hash # Missing) =>
        assets.manifest = build_global_manifest(assets.raw_hash.md5)

(***************************************************************************)
(* C21. Whenever no refresh is in progress, also after a refresh that      *)
(* failed or was interrupted between its steps, the locally stored hash is *)
(* the hash of the raw catalog from which the locally stored cleaned table *)
(* was built: a stale table is never paired with a fresh hash.             *)
(***************************************************************************)
C21_HashIsOfStoredTable == refresh.pc = "idle" => TableMatchesHash

\* a call of load_global_manifest has returned or raised
LoadCalled == pc = "called" /\ req = NoRequest /\ outcome.kind \in {"loaded", "IntegrityError"}

HasDuplicatedPair(raw_csv) ==
    \E i, j \in 1..Len(raw_csv) :
        /\ i # j
        /\ raw_csv[i].dataset_name = raw_csv[j].dataset_name
        /\ raw_csv[i].iso3 = raw_csv[j].iso3

\* the file extensions of the remote paths
RasterFormats(raw_csv) == {LastField(raw_csv[i].remote_path, ".") : i \in 1..Len(raw_csv)}

(***************************************************************************)
(* C22, as claimed. load_global_manifest fails with the integrity error if *)
(* the manifest has two rows with the same (dataset_name, iso3) pair, or   *)
(* if the raster formats of the remote paths are not uniform; it succeeds  *)
(* for every manifest with unique pairs and one uniform raster format.     *)
(***************************************************************************)
C22_FailsIffDuplicatedOrMixed ==
    LoadCalled =>
        (outcome.kind = "IntegrityError") =
            (HasDuplicatedPair(catalog) \/ Cardinality(RasterFormats(catalog)) # 1)

(***************************************************************************)
(* C22, amended. load_global_manifest fails with the integrity error if    *)
(* the manifest has two rows with the same (dataset_name, iso3) pair, or   *)
(* if the raster formats of the remote paths are anything but 'tif' alone  *)
(* (mixed formats, or one uniform format other than tif); it succeeds for  *)
(* every manifest with unique pairs whose rasters are all .tif, so every   *)
(* manifest it returns has unique pairs and the one format tif.            *)
(***************************************************************************)
C22_FailsIffDuplicatedOrNotAllTif ==
    /\ LoadCalled =>
          (outcome.kind = "IntegrityError") =
              (HasDuplicatedPair(catalog) \/ RasterFormats(catalog) # {<<"t", "i", "f">>})
    /\ ~mdf_cache.raised =>
          /\ ~HasDuplicatedPair(mdf_cache.mdf)
          /\ RasterFormats(mdf_cache.mdf) = {<<"t", "i", "f">>}

\* a load has rejected a manifest of unique pairs and one uniform format
C22_Witness ==
    /\ LoadCalled
    /\ outcome.kind = "IntegrityError"
    /\ ~HasDuplicatedPair(catalog)
    /\ Cardinality(RasterFormats(catalog)) = 1

\* the positions of the year tokens _YYYY of a name, and the year of each
TokenPositions(name) ==
    {i \in 1..(Len(name) - 4) : name[i] = "_" /\ \A k \in 1..4 : IsDigit(name[i + k])}
TokenYear(name, i) ==
    1000 * DigitVal(name[i + 1]) + 100 * DigitVal(name[i + 2])
        + 10 * DigitVal(name[i + 3]) + DigitVal(name[i + 4])
IsPlausible(year) == FIRST_YEAR <= year /\ year <= CurrentYear
PlausiblePositions(name) ==
    {i \in TokenPositions(name) : IsPlausible(TokenYear(name, i))}

ExtractCalled == pc = "called" /\ outcome.kind \in {"year", "ValueError"}

(***************************************************************************)
(* C23, as claimed. For every dataset name that contains exactly one       *)
(* plausible year token _YYYY (2000 <= YYYY <= current year), extract_year *)
(* returns that year; for every name with zero or more than one such       *)
(* token, extract_year fails.                                              *)
(***************************************************************************)
C23_OnePlausibleTokenGivesYear ==
    ExtractCalled =>
        LET plausible == PlausiblePositions(req.product_name)
        IN  IF Cardinality(plausible) = 1
            THEN /\ outcome.kind = "year"
                 /\ \A i \in plausible : outcome.year = TokenYear(req.product_name, i)
            ELSE outcome.kind = "ValueError"

(***************************************************************************)
(* C23, amended. For every dataset name that contains exactly one year     *)
(* token _YYYY, that token being a plausible year (2000 <= YYYY <= current *)
(* year), extract_year returns that year as an integer; for every name     *)
(* with no token or with more than one token, plausible or not, or whose   *)
(* one token is an implausible year, extract_year fails.                   *)
(***************************************************************************)
C23_OneTokenPlausibleGivesYear ==
    ExtractCalled =>
        LET tokens == TokenPositions(req.product_name)
        IN  IF Cardinality(tokens) = 1 /\ PlausiblePositions(req.product_name) = tokens
            THEN /\ outcome.kind = "year"
                 /\ \A i \in tokens : outcome.year = TokenYear(req.product_name, i)
            ELSE outcome.kind = "ValueError"

\* extract_year failed on a name with one plausible token and an implausible one
C23_Witness ==
    /\ ExtractCalled
    /\ outcome.kind = "ValueError"
    /\ Cardinality(PlausiblePositions(req.product_name)) = 1
    /\ Cardinality(TokenPositions(req.product_name)) = 2

StripCalled == pc = "called" /\ outcome.kind = "stripped"

\* '_' + str(y) for the one year token of an annual name
YearSuffix(name) ==
    LET i == CHOOSE k \in TokenPositions(name) : TRUE
    IN  <<"_">> \o FormatInt(TokenYear(name, i))

(***************************************************************************)
(* C24, as claimed. For every annual dataset name n (one on which          *)
(* extract_year succeeds with year y), appending '_' + y to _strip_year(n) *)
(* reconstructs n exactly.                                                 *)
(***************************************************************************)
C24_StripThenAppendRestores ==
    StripCalled => outcome.name \o YearSuffix(req.product_name) = req.product_name

(***************************************************************************)
(* C24, amended. For every annual dataset name n with year y, appending    *)
(* '_' + y to _strip_year(n) reconstructs n exactly if and only if the     *)
(* year token is the end of n; in every case _strip_year(n) is n with the  *)
(* token taken out, whatever follows the token being kept after the stem.  *)
(***************************************************************************)
C24_StripThenAppendRestoresIffLast ==
    StripCalled =>
        LET n == req.product_name
            i == CHOOSE k \in TokenPositions(n) : TRUE
        IN  /\ (outcome.name \o YearSuffix(n) = n) = (i + 4 = Len(n))
            /\ outcome.name = SubSeq(n, 1, i - 1) \o SubSeq(n, i + 5, Len(n))

\* a name whose year token is followed by more was stripped
C24_Witness ==
    /\ StripCalled
    /\ \E i \in TokenPositions(req.product_name) : i + 4 < Len(req.product_name)

(***************************************************************************)
(* C25. A _merge_rasters call whose rasters were all read fails with the   *)
(* inconsistent-metadata error if and only if two of its rasters that both *)
(* carry `_FillValue`, or both carry `scale_factor`, have different values *)
(* of it, and the error names an attribute that is in conflict; a raster   *)
(* without the attribute takes no part, wherever it stands.                *)
(***************************************************************************)
MergeCalled == pc = "called" /\ raster_args.fn = "_merge_rasters"
AllRead ==
    /\ raster_args.other_read_kwargs # None
    /\ \A i \in 1..Len(raster_args.raster_fpaths) : raster_args.raster_fpaths[i].error = "none"
InConflict(attribute) ==
    \E i, j \in 1..Len(raster_args.raster_fpaths) :
        LET a == raster_args.raster_fpaths[i][attribute]
            b == raster_args.raster_fpaths[j][attribute]
        IN  a # Absent /\ b # Absent /\ a # b
IsMetadataError ==
    outcome.kind = "ValueError" /\ outcome.message.text = "Country rasters do not use the same"
C25_FailsIffAttributeDiffers ==
    (MergeCalled /\ AllRead) =>
        /\ IsMetadataError <=> (InConflict("_FillValue") \/ InConflict("scale_factor"))
        /\ IsMetadataError => InConflict(outcome.message.attribute)
\* the same, for groups in which no raster has NaN as its `_FillValue`
C25_WithoutNaN ==
    (MergeCalled /\ AllRead
        /\ \A i \in 1..Len(raster_args.raster_fpaths) : raster_args.raster_fpaths[i]._FillValue # NaN)
    => /\ IsMetadataError <=> (InConflict("_FillValue") \/ InConflict("scale_factor"))
       /\ IsMetadataError => InConflict(outcome.message.attribute)

(***************************************************************************)
(* C29. Each of the two validators accepts a bounding box exactly when it  *)
(* is a list or tuple of four numbers (min_lon, min_lat, max_lon, max_lat) *)
(* with min_lon < max_lon, min_lat < max_lat, both longitudes in           *)
(* [-180, 180] and both latitudes in [-90, 90]; it raises an error on      *)
(* every other input, and the two give the same verdict on every input.    *)
(***************************************************************************)
BboxCalled == pc = "called" /\ raster_args.fn = "validate_bbox"
IsNumber(x) == x.type \in {"int", "float"}
Lt(a, b) == ~a.nan /\ ~b.nan /\ a.v < b.v
Within(x, lo, hi) == ~x.nan /\ lo <= x.v /\ x.v <= hi
WellFormed(bbox) ==
    /\ bbox.type \in {"list", "tuple"}
    /\ Len(bbox.items) = 4
    /\ \A i \in 1..4 : IsNumber(bbox.items[i])
    /\ Lt(bbox.items[1], bbox.items[3])
    /\ Lt(bbox.items[2], bbox.items[4])
    /\ Within(bbox.items[1], -180, 180) /\ Within(bbox.items[3], -180, 180)
    /\ Within(bbox.items[2], -90, 90) /\ Within(bbox.items[4], -90, 90)
C29_AcceptsIffWellFormed ==
    BboxCalled =>
        /\ outcome.raster = "None" <=> WellFormed(raster_args.bbox)
        /\ outcome.utils = "None" <=> WellFormed(raster_args.bbox)
        /\ outcome.raster = outcome.utils
\* the box of the whole globe, accepted by both validators
C29_Witness ==
    /\ BboxCalled
    /\ raster_args.bbox.items = <<Int_(-180), Int_(-90), Int_(180), Int_(90)>>
    /\ outcome.raster = "None"
    /\ outcome.utils = "None"

(***************************************************************************)
(* What the claims about wp_raster speak of.                               *)
(***************************************************************************)
WpCalled == pc = "called" /\ raster_args.fn = "wp_raster"
\* what download() is to resolve the request to
WpResolved ==
    filter_global_manifest(load_global_manifest(catalog), req.product_name,
                           req.iso3_codes, req.years)
WpValid ==
    /\ req.iso3_codes.kind \in {"str", "list"}
    /\ _format_aoi(req.iso3_codes).raised = "none"
    /\ WpResolved.kind = "returned"
    /\ Len(WpResolved.rows) > 0
WpLocalPath(row) ==
    [dir |-> raster_args.d, name |-> _build_local_fname(row.product_name, row.iso3, row.year)]
WpLocalPaths == {WpLocalPath(WpResolved.rows[i]) : i \in 1..Len(WpResolved.rows)}
IsReadError ==
    /\ outcome.kind = "ValueError"
    /\ outcome.message.text = "Failed to read raster file"
    /\ outcome.message.cache_hint

(***************************************************************************)
(* C26. A wp_raster call (not a dry run) for a valid request of which a    *)
(* raster in the cache cannot be read fails with the raster-read error,    *)
(* which carries the cause and the cache hint, and returns no merged       *)
(* result.                                                                 *)
(***************************************************************************)
C26_UnreadableRasterFailsCall ==
    (/\ WpCalled
     /\ ~raster_args.download_dry_run
     /\ raster_args.skip_download_if_exists
     /\ WpValid
     /\ \E path \in WpLocalPaths : IsFile(fs, path) /\ fs[path] = Hole)
    => IsReadError
\* the same of _merge_rasters alone: a read that fails ends the call with the
\* raster-read error, and a call that merges has read every raster
C26_FailedReadFailsMerge ==
    MergeCalled =>
        LET fpaths == raster_args.raster_fpaths
            Fails(i) == OpenRasterio(fpaths[i], raster_args.other_read_kwargs) # "none"
        IN  /\ outcome.kind = "merged" => \A i \in 1..Len(fpaths) : ~Fails(i)
            /\ (\E i \in 1..Len(fpaths) : Fails(i) /\ \A j \in 1..(i - 1) :
                    /\ ~Fails(j)
                    /\ fpaths[j]._FillValue = Absent
                    /\ fpaths[j].scale_factor = Absent)
               => IsReadError /\ outcome.message.cause # "none"

(***************************************************************************)
(* C27. A wp_raster call (not a dry run) for a valid annual request whose  *)
(* rasters are readable in the cache returns the stack of one slice per    *)
(* requested year, the slice of a year being merged from exactly the local *)
(* files of the requested countries for that year; the year extract_year   *)
(* reads from a local file name is the manifest year of its entry.         *)
(***************************************************************************)
C27_OneSlicePerRequestedYear ==
    (/\ WpCalled
     /\ ~raster_args.download_dry_run
     /\ raster_args.skip_download_if_exists
     /\ req.years.kind # "none"
     /\ WpValid
     /\ \A path \in WpLocalPaths : IsFile(fs, path) /\ fs[path] # Hole)
    => /\ \A i \in 1..Len(WpResolved.rows) :
            extract_year(WpLocalPath(WpResolved.rows[i]).name)
                = [raised |-> FALSE, year |-> WpResolved.rows[i].year]
       /\ outcome.kind = "stacked"
       /\ DOMAIN outcome.slices = Range(RequestedYears)
       /\ \A y \in DOMAIN outcome.slices :
            Range(outcome.slices[y]) =
                {WpLocalPath(WpResolved.rows[i]) :
                    i \in {k \in 1..Len(WpResolved.rows) : WpResolved.rows[k].year = y}}

(***************************************************************************)
(* C28. A dry run of wp_raster fails with the validation error of the      *)
(* request when the request is invalid, returns without error when it is   *)
(* valid, and transfers no raster and creates no file.                     *)
(***************************************************************************)
C28_DryRunValidatesAndCompletes ==
    (/\ WpCalled
     /\ raster_args.download_dry_run
     /\ req.iso3_codes.kind \in {"str", "list"}
     /\ _format_aoi(req.iso3_codes).raised = "none")
    => /\ fs_ops = {}
       /\ WpResolved.kind # "returned" =>
             outcome.kind = WpResolved.kind /\ outcome.unknown_isos = WpResolved.unknown_isos
       /\ WpResolved.kind = "returned" => outcome.kind = "returned"

(***************************************************************************)
(* C30. In every entry that build_global_manifest builds, is_annual holds  *)
(* exactly when extract_year succeeds on dataset_name and exactly when     *)
(* year is not null; an annual entry has the year of the one `_YYYY` token *)
(* of its dataset name and, as product_name, the dataset name without that *)
(* token; a static entry has the dataset name as product_name and no year. *)
(***************************************************************************)
BuiltCalled == pc = "called" /\ outcome.kind = "built"
\* the name without the five characters of the token at position i
WithoutToken(name, i) == SubSeq(name, 1, i - 1) \o SubSeq(name, i + 5, Len(name))
C30_EntryFieldsAgree ==
    BuiltCalled =>
        \A k \in 1..Len(outcome.rows) :
            LET row == outcome.rows[k]
                name == row.dataset_name
            IN  /\ row.is_annual <=> ~extract_year(name).raised
                /\ row.is_annual <=> row.year # NoYear
                /\ row.is_annual =>
                      /\ Cardinality(TokenPositions(name)) = 1
                      /\ \A i \in TokenPositions(name) :
                            /\ row.year = TokenYear(name, i)
                            /\ row.product_name = WithoutToken(name, i)
                /\ ~row.is_annual => row.product_name = name /\ row.year = NoYear
\* an annual entry whose token stands in the middle of a longer run of digits
C30_Witness ==
    /\ BuiltCalled
    /\ outcome.rows[1].is_annual
    /\ outcome.rows[1].dataset_name = <<"p", "_", "2", "0", "2", "1", "2", "1", "_", "c">>
    /\ outcome.rows[1].product_name = <<"p", "2", "1", "_", "c">>

(***************************************************************************)
(* C31. Once a load_global_manifest call has returned, the memoized table  *)
(* never changes, and every later call of it or of a query helper returns  *)
(* at once the value of that table, fetching nothing from the server,      *)
(* whatever the server publishes and whatever build_global_manifest has    *)
(* stored since; a load that raised memoizes nothing, and the next call    *)
(* runs the load again.                                                    *)
(***************************************************************************)
QueryCalled == pc = "idle" /\ pc' # "idle"
Loaded == ~mdf_cache.raised
C31_MemoizedForProcessLifetime ==
    /\ [][Loaded => mdf_cache' = mdf_cache]_vars
    /\ [][(QueryCalled /\ Loaded) =>
             /\ pc' = "called"
             /\ outcome'.kind = "value"
             /\ outcome'.value = ValueOf(outcome'.fn, mdf_cache.mdf)
             /\ outcome'.transfers = {}
             /\ refresh' = refresh /\ assets' = assets]_vars
    /\ [][(QueryCalled /\ ~Loaded) => pc' = "loading" /\ refresh'.pc # "idle"]_vars
    /\ [][(pc = "loading" /\ pc' = "called" /\ outcome'.kind # "value") =>
             ~Loaded' /\ query'.cache = query.cache]_vars
    /\ [](\A h \in Helpers :
             query.cache[h] # Missing =>
                Loaded /\ query.cache[h].value = HelperValue(h, mdf_cache.mdf))
\* a helper returns the memoized names although the server has another
\* catalog and the local files were rebuilt from it
C31_Witness ==
    /\ pc = "called"
    /\ outcome.kind = "value"
    /\ outcome.fn = "get_all_dataset_names"
    /\ outcome.transfers = {}
    /\ assets.manifest # Missing
    /\ assets.manifest # mdf_cache.mdf
    /\ outcome.value = get_all_dataset_names(mdf_cache.mdf)
    /\ outcome.value # get_all_dataset_names(assets.manifest)

(***************************************************************************)
(* C35. When load_global_manifest fails with the integrity error, the      *)
(* cleaned table and the hash stored locally are those from before the     *)
(* call: a rejected catalog is not installed.                              *)
(***************************************************************************)
C35_RejectedCatalogNotInstalled ==
    [][(pc = "loading" /\ pc' = "called" /\ outcome'.kind = "IntegrityError") =>
          assets' = query.before]_vars

C34_SucceedsWhenAllCombinationsPresent ==
    (/\ Called
     /\ ManifestLoaded
     /\ Len(RequestedCodes) >= 1
     /\ YearsAbsent \/ Len(RequestedYears) >= 1
     /\ ~SomeCombinationMissing) =>
        outcome.kind = "returned"

\* the local paths of the resolved rows as download() returns them (line 119)
WpSortedPaths ==
    sorted([i \in 1..Len(WpResolved.rows) |-> WpLocalPath(WpResolved.rows[i])])
Ascending(seq) == \A i, j \in 1..Len(seq) : i < j => seq[i] < seq[j]

\* over the sorted names of a valid annual request the year groups are first
\* met in ascending year order
C36_GroupsAscendOverSortedNames ==
    (WpCalled /\ WpValid /\ req.years.kind # "none") =>
        Ascending(FirstOccurrences(WpSortedPaths))
C36_TwoYearsRequested ==
    WpCalled /\ WpValid /\ Len(FirstOccurrences(WpSortedPaths)) >= 2

(***************************************************************************)
(* C36. A wp_raster call (not a dry run) for a valid annual request whose  *)
(* rasters are readable in the cache returns a stack whose year slices are *)
(* in ascending year order, whatever the order in which the years and the  *)
(* countries were listed.                                                  *)
(***************************************************************************)
C36_SlicesInAscendingYearOrder ==
    (/\ WpCalled
     /\ ~raster_args.download_dry_run
     /\ raster_args.skip_download_if_exists
     /\ req.years.kind # "none"
     /\ WpValid
     /\ \A path \in WpLocalPaths : IsFile(fs, path) /\ fs[path] # Hole)
    => /\ outcome.kind = "stacked"
       /\ Ascending(outcome.year)
       /\ Range(outcome.year) = Range(RequestedYears)

C36_YearsListedDescending ==
    /\ C36_TwoYearsRequested
    /\ ~Ascending(RequestedYears)

(***************************************************************************)
(* C37. The maximum concurrency that download() hands to its worker pool,  *)
(* the value of get_max_concurrency(), is an integer and at least 1: for   *)
(* every CPU count of at least 1 when the environment override is unset,   *)
(* and for every value of the override when it is set.                     *)
(***************************************************************************)
C37_MaximumIsPositiveInteger ==
    /\ n_jobs.type = "int"
    /\ n_jobs.value >= 1

=============================================================================
